---- MODULE Spec2Model ----
(***************************************************************************)
(* EduDocAI: the query router (src/chains/routing_chain.py), the ReAct     *)
(* agent wrapper (src/agents/agent.py) and the agent tools                 *)
(* (src/agents/tools.py).                                                  *)
(*                                                                         *)
(* Text is a sequence of one-character strings, so that substring tests,   *)
(* case folding, splitting and the regular expressions of the source are   *)
(* computed character by character, as Python computes them.               *)
(***************************************************************************)
EXTENDS Integers, Sequences, FiniteSets, TLC

VARIABLES
    r_pc, r_query, r_gen, r_route, r_raised,
    a_pc, a_variant, a_max_iterations, a_query, a_hint, a_messages, a_step,
    a_events, a_result, a_error, a_raised, a_ceiling,
    d_pc, d_teacher, d_context, d_schedule, d_conflicts, d_result, d_raised,
    c_pc, c_expression, c_result, c_evaluated, c_raised,
    x_proc, x_files,
    s_pc, s_query, s_document_type, s_store, s_searched, s_result, s_raised,
    t_pc, t_variant, t_messages, t_batch, t_started, t_running, t_finished, t_events,
    h_dir, h_vector_store_manager, h_qa_chain, h_query_router, h_agent, h_made, h_last,
    h_calls, h_session

rvars == <<r_pc, r_query, r_gen, r_route, r_raised>>

avars == <<a_pc, a_variant, a_max_iterations, a_query, a_hint, a_messages, a_step,
           a_events, a_result, a_error, a_raised, a_ceiling>>

dvars == <<d_pc, d_teacher, d_context, d_schedule, d_conflicts, d_result, d_raised>>

cvars == <<c_pc, c_expression, c_result, c_evaluated, c_raised>>

xvars == <<x_proc, x_files>>

svars == <<s_pc, s_query, s_document_type, s_store, s_searched, s_result, s_raised>>

tvars == <<t_pc, t_variant, t_messages, t_batch, t_started, t_running, t_finished, t_events>>

hvars == <<h_dir, h_vector_store_manager, h_qa_chain, h_query_router, h_agent, h_made, h_last,
           h_calls, h_session>>

vars == <<rvars, avars, dvars, cvars, xvars, svars, tvars, hvars>>

-----------------------------------------------------------------------------
(* Python str primitives *)

UpperLetters == <<"A","B","C","D","E","F","G","H","I","J","K","L","M",
                  "N","O","P","Q","R","S","T","U","V","W","X","Y","Z">>

LowerLetters == <<"a","b","c","d","e","f","g","h","i","j","k","l","m",
                  "n","o","p","q","r","s","t","u","v","w","x","y","z">>

Digits == {"0","1","2","3","4","5","6","7","8","9"}

UpperSet == {UpperLetters[i] : i \in DOMAIN UpperLetters}

LowerSet == {LowerLetters[i] : i \in DOMAIN LowerLetters}

IsUpper(c) == c \in UpperSet

IsLower(c) == c \in LowerSet

IsSpace(c) == c \in {" ", "\n", "\t", "\r"}

SetMin(S) == CHOOSE x \in S : \A y \in S : x <= y

SetMax(S) == CHOOSE x \in S : \A y \in S : x >= y

\* str.lower(), one character
lower_char(c) ==
    IF IsUpper(c)
    THEN LowerLetters[CHOOSE i \in DOMAIN UpperLetters : UpperLetters[i] = c]
    ELSE c

\* str.lower()
lower(s) == [i \in 1..Len(s) |-> lower_char(s[i])]

\* kw in s
contains(s, kw) ==
    \E i \in 0..(Len(s) - Len(kw)) : \A j \in 1..Len(kw) : s[i + j] = kw[j]

\* s.startswith(p)
startswith(s, p) ==
    /\ Len(p) <= Len(s)
    /\ \A j \in 1..Len(p) : s[j] = p[j]

\* s.strip(chars): the characters of the set are removed from both ends
strip_chars(s, chars) ==
    LET keep == {i \in 1..Len(s) : s[i] \notin chars}
    IN  IF keep = {} THEN << >> ELSE SubSeq(s, SetMin(keep), SetMax(keep))

\* s.strip()
strip(s) ==
    LET keep == {i \in 1..Len(s) : ~IsSpace(s[i])}
    IN  IF keep = {} THEN << >> ELSE SubSeq(s, SetMin(keep), SetMax(keep))

\* position of the first c in s, 0 when there is none
find_char(s, c) ==
    LET at == {i \in 1..Len(s) : s[i] = c}
    IN  IF at = {} THEN 0 ELSE SetMin(at)

\* s.split(c, 1)
split_once(s, c) ==
    LET k == find_char(s, c)
    IN  IF k = 0 THEN <<s>>
        ELSE <<SubSeq(s, 1, k - 1), SubSeq(s, k + 1, Len(s))>>

RECURSIVE split(_, _)
\* s.split(c)
split(s, c) ==
    LET k == find_char(s, c)
    IN  IF k = 0 THEN <<s>>
        ELSE <<SubSeq(s, 1, k - 1)>> \o split(SubSeq(s, k + 1, Len(s)), c)

RECURSIVE join(_, _)
\* sep.join(parts)
join(parts, sep) ==
    IF Len(parts) = 0 THEN << >>
    ELSE IF Len(parts) = 1 THEN parts[1]
    ELSE parts[1] \o sep \o join(Tail(parts), sep)

RECURSIVE concat(_)
\* "".join(parts)
concat(parts) == IF Len(parts) = 0 THEN << >> ELSE parts[1] \o concat(Tail(parts))

\* None
None == [t |-> "none"]

-----------------------------------------------------------------------------
(* routing_chain.py: QueryType, QueryRoute, QueryRouter *)

\* QueryType: the four values of the enumeration
QueryType == {"simple", "cross_document", "aggregation", "complex"}

\* QueryType.value as text
QueryTypeValue(qt) ==
    CASE qt = "simple" -> <<"s","i","m","p","l","e">>
      [] qt = "cross_document" -> <<"c","r","o","s","s","_","d","o","c","u","m","e","n","t">>
      [] qt = "aggregation" -> <<"a","g","g","r","e","g","a","t","i","o","n">>
      [] qt = "complex" -> <<"c","o","m","p","l","e","x">>

\* Python values the parser handles: None, a str, a dict (a sequence of <<key, value>>
\* pairs), a list.
PyStr(s) == [t |-> "str", v |-> s]

PyDict(pairs) == [t |-> "dict", v |-> pairs]

PyList(items) == [t |-> "list", v |-> items]

\* Optional[Dict[str, str]]: what pydantic accepts for metadata_filter
IsOptionalStrDict(x) ==
    \/ x = None
    \/ /\ x.t = "dict"
       /\ \A i \in 1..Len(x.v) : x.v[i][2].t = "str"

\* QueryRoute(...): the validated model, or a ValidationError
QueryRoute(query_type, reasoning, metadata_filter) ==
    IF query_type \in QueryType /\ IsOptionalStrDict(metadata_filter)
    THEN [raised |-> FALSE,
          route |-> [query_type |-> query_type, reasoning |-> reasoning,
                     metadata_filter |-> metadata_filter]]
    ELSE [raised |-> TRUE]

AggregationKeywords ==
    {<<"h","o","w"," ","m","a","n","y">>, <<"c","o","u","n","t">>, <<"t","o","t","a","l">>, <<"n","u","m","b","e","r"," ","o","f">>}

CrossDocumentKeywords ==
    {<<"a","l","l">>, <<"w","h","i","c","h"," ","s","t","u","d","e","n","t","s">>, <<"l","i","s","t">>, <<"s","h","o","w"," ","m","e">>}

ComplexKeywords ==
    {<<"c","o","n","f","l","i","c","t">>, <<"g","e","n","e","r","a","t","e">>, <<"e","x","p","o","r","t">>, <<"c","s","v">>}

\* any(keyword in text for keyword in keywords)
any_keyword(text, keywords) == \E kw \in keywords : contains(text, kw)

\* a heuristic that tests the tool-use cues before the others
heuristic_complex_first(query) ==
    IF any_keyword(lower(query), ComplexKeywords)
    THEN QueryRoute("complex", << >>, None)
    ELSE IF any_keyword(lower(query), AggregationKeywords)
    THEN QueryRoute("aggregation", << >>, None)
    ELSE IF any_keyword(lower(query), CrossDocumentKeywords)
    THEN QueryRoute("cross_document", << >>, None)
    ELSE QueryRoute("simple", << >>, None)

\* QueryRouter._heuristic_route
heuristic_route(query) ==
    LET query_lower == lower(query)
    IN  IF any_keyword(query_lower, AggregationKeywords)
        THEN QueryRoute("aggregation", <<"Q","u","e","r","y"," ","c","o","n","t","a","i","n","s"," ","a","g","g","r","e","g",
              "a","t","i","o","n"," ","k","e","y","w","o","r","d","s">>, None)
        ELSE IF any_keyword(query_lower, CrossDocumentKeywords)
        THEN QueryRoute("cross_document", <<"Q","u","e","r","y"," ","l","i","k","e","l","y"," ","r","e","q","u","i","r","e","s",
              " ","m","u","l","t","i","p","l","e"," ","d","o","c","u","m","e","n","t","s">>, None)
        ELSE IF any_keyword(query_lower, ComplexKeywords)
        THEN QueryRoute("complex", <<"Q","u","e","r","y"," ","r","e","q","u","i","r","e","s"," ","c","o","m","p","l","e",
              "x"," ","r","e","a","s","o","n","i","n","g"," ","o","r"," ","t","o","o","l","s">>, None)
        ELSE QueryRoute("simple", <<"S","i","m","p","l","e"," ","f","a","c","t","u","a","l"," ","q","u","e","r","y">>, None)

\* the mapping with 'complex' tested first
map_complex_first(query_type_str) ==
    IF query_type_str = None \/ query_type_str.v = << >> THEN "simple"
    ELSE IF contains(strip(lower(query_type_str.v)), <<"c","o","m","p","l","e","x">>) THEN "complex"
    ELSE IF contains(strip(lower(query_type_str.v)), <<"c","r","o","s","s">>)
              \/ contains(strip(lower(query_type_str.v)), <<"m","u","l","t","i">>)
    THEN "cross_document"
    ELSE IF contains(strip(lower(query_type_str.v)), <<"a","g","g","r","e","g","a","t","i","o","n">>)
              \/ contains(strip(lower(query_type_str.v)), <<"c","o","u","n","t">>)
    THEN "aggregation"
    ELSE "simple"

\* QueryRouter._map_query_type
map_query_type(query_type_str) ==
    IF query_type_str = None \/ query_type_str.v = << >> THEN "simple"
    ELSE LET s == strip(lower(query_type_str.v))
         IN  IF contains(s, <<"c","r","o","s","s">>) \/ contains(s, <<"m","u","l","t","i">>) THEN "cross_document"
             ELSE IF contains(s, <<"a","g","g","r","e","g","a","t","i","o","n">>) \/ contains(s, <<"c","o","u","n","t">>) THEN "aggregation"
             ELSE IF contains(s, <<"c","o","m","p","l","e","x">>) THEN "complex"
             ELSE "simple"

\* json.loads on the JSON subset the replies use: strings without escapes, arrays
\* and objects, with whitespace between tokens.  A parse is [ok, val, next].
JsonFail == [ok |-> FALSE]

\* first position >= i that holds no JSON whitespace (Len(s) + 1 when none)
SkipWs(s, i) ==
    LET stop == {j \in i..Len(s) : ~IsSpace(s[j])}
    IN  IF stop = {} THEN Len(s) + 1 ELSE SetMin(stop)

\* a string literal opening at i
JsonString(s, i) ==
    IF i > Len(s) \/ s[i] # "\"" THEN JsonFail
    ELSE LET ends == {j \in (i + 1)..Len(s) : s[j] = "\""}
         IN  IF ends = {} THEN JsonFail
             ELSE [ok |-> TRUE, val |-> PyStr(SubSeq(s, i + 1, SetMin(ends) - 1)),
                   next |-> SetMin(ends) + 1]

\* the "key": in front of an object's member, with next after the colon; an array's
\* element has none
JsonKeyColon(s, k, c) ==
    IF k.ok /\ c <= Len(s) /\ s[c] = ":"
    THEN [ok |-> TRUE, val |-> k.val, next |-> c + 1]
    ELSE JsonFail

JsonKey(production, s, i) ==
    IF production = "elements" THEN [ok |-> TRUE, val |-> None, next |-> i]
    ELSE JsonKeyColon(s, JsonString(s, i),
                      IF JsonString(s, i).ok THEN SkipWs(s, JsonString(s, i).next) ELSE 0)

\* the container with one more member or element
JsonAdd(production, acc, k, v) ==
    IF production = "members" THEN Append(acc, <<k.val.v, v.val>>) ELSE Append(acc, v.val)

JsonContainer(production, acc) ==
    IF production = "members" THEN PyDict(acc) ELSE PyList(acc)

RECURSIVE Json(_, _, _, _)
RECURSIVE JsonItem(_, _, _, _)
RECURSIVE JsonAfterItem(_, _, _, _, _)
RECURSIVE JsonSeparator(_, _, _, _)

\* the recursive descent, the production as its first argument: "value" parses a
\* value at i; "members" the "key": value pairs of an object up to its closing
\* brace; "elements" the values of an array up to its closing bracket
Json(production, s, i, acc) ==
    IF i > Len(s) THEN JsonFail
    ELSE IF IsSpace(s[i]) THEN Json(production, s, SkipWs(s, i), acc)
    ELSE IF production # "value" THEN JsonItem(production, s, acc, JsonKey(production, s, i))
    ELSE IF s[i] = "\"" THEN JsonString(s, i)
    ELSE IF s[i] = "{" /\ SkipWs(s, i + 1) <= Len(s) /\ s[SkipWs(s, i + 1)] = "}"
    THEN [ok |-> TRUE, val |-> PyDict(<< >>), next |-> SkipWs(s, i + 1) + 1]
    ELSE IF s[i] = "[" /\ SkipWs(s, i + 1) <= Len(s) /\ s[SkipWs(s, i + 1)] = "]"
    THEN [ok |-> TRUE, val |-> PyList(<< >>), next |-> SkipWs(s, i + 1) + 1]
    ELSE IF s[i] = "{" THEN Json("members", s, i + 1, << >>)
    ELSE IF s[i] = "[" THEN Json("elements", s, i + 1, << >>)
    ELSE JsonFail

JsonItem(production, s, acc, k) ==
    IF ~k.ok THEN JsonFail
    ELSE JsonAfterItem(production, s, acc, k, Json("value", s, k.next, << >>))

JsonAfterItem(production, s, acc, k, v) ==
    IF ~v.ok THEN JsonFail
    ELSE JsonSeparator(production, s, JsonAdd(production, acc, k, v), SkipWs(s, v.next))

JsonSeparator(production, s, acc, e) ==
    IF e > Len(s) THEN JsonFail
    ELSE IF s[e] = (IF production = "members" THEN "}" ELSE "]")
    THEN [ok |-> TRUE, val |-> JsonContainer(production, acc), next |-> e + 1]
    ELSE IF s[e] = "," THEN Json(production, s, e + 1, acc)
    ELSE JsonFail

\* the whole text must be one value
JsonWhole(s, r) ==
    IF r.ok /\ SkipWs(s, r.next) > Len(s)
    THEN [raised |-> FALSE, val |-> r.val]
    ELSE [raised |-> TRUE]

\* json.loads(s): the value, or a raised JSONDecodeError
json_loads(s) == JsonWhole(s, Json("value", s, 1, << >>))

Quotes == {"\"", "'"}

\* the simple key:value format
parse_key_value(parts) ==
    PyDict(<< <<strip_chars(strip(parts[1]), Quotes),
                PyStr(strip_chars(strip(parts[2]), Quotes))>> >>)

\* what follows the JSON attempt; js is its outcome
parse_filter_after_json(filter_str, js) ==
    IF ~js.raised THEN js.val
    ELSE IF contains(filter_str, <<":">>) THEN parse_key_value(split_once(filter_str, ":"))
    ELSE None

\* QueryRouter._parse_filter_string
parse_filter_string(filter_str) ==
    parse_filter_after_json(filter_str,
        IF contains(filter_str, <<"{">>) THEN json_loads(filter_str) ELSE [raised |-> TRUE])

\* the text after the first colon of a field line, stripped
field_value(line) == strip(split_once(line, ":")[2])

\* the branch for a Filter line; filter_str is its value
parse_filter_field(filter_str, acc) ==
    IF filter_str # << >> /\ lower(filter_str) # <<"n","o","n","e">>
    THEN [acc EXCEPT !.metadata_filter = parse_filter_string(filter_str)]
    ELSE acc

\* one iteration of the loop over the reply's lines; line is stripped, low is
\* line.lower()
parse_line(line, low, acc) ==
    IF startswith(low, <<"t","y","p","e",":">>)
    THEN [acc EXCEPT !.query_type_str = PyStr(lower(field_value(line)))]
    ELSE IF startswith(low, <<"r","e","a","s","o","n","i","n","g",":">>)
    THEN [acc EXCEPT !.reasoning = PyStr(field_value(line))]
    ELSE IF startswith(low, <<"f","i","l","t","e","r",":">>)
    THEN parse_filter_field(field_value(line), acc)
    ELSE acc

RECURSIVE parse_lines(_, _, _)
\* the loop over the reply's lines: the fields found, the last of each winning
parse_lines(lines, k, acc) ==
    IF k > Len(lines) THEN acc
    ELSE parse_lines(lines, k + 1, parse_line(strip(lines[k]), lower(strip(lines[k])), acc))

\* the reasoning of the decision: the parsed one, or the default
reasoning_or_default(reasoning, query_type) ==
    IF reasoning = None \/ reasoning.v = << >>
    THEN <<"C","l","a","s","s","i","f","i","e","d"," ","a","s"," ">> \o QueryTypeValue(query_type) \o <<" ","q","u","e","r","y">>
    ELSE reasoning.v

\* the except clause of _parse_routing_response: the heuristic answers when building
\* the decision raised
route_or_heuristic(built, query) ==
    IF built.raised THEN heuristic_route(query) ELSE built

\* the decision built from the parsed fields f and the mapped query type
route_from_fields(f, query_type, query) ==
    route_or_heuristic(
        QueryRoute(query_type, reasoning_or_default(f.reasoning, query_type),
                   f.metadata_filter),
        query)

\* the mapping of the parsed Type field
route_from_parsed(f, query) == route_from_fields(f, map_query_type(f.query_type_str), query)

\* QueryRouter._parse_routing_response
parse_routing_response(response, query) ==
    route_from_parsed(
        parse_lines(split(strip(response), "\n"), 1,
            [query_type_str |-> None, reasoning |-> None, metadata_filter |-> None]),
        query)

T_fallback == <<"F","a","l","l","b","a","c","k"," ","d","u","e"," ","t","o"," ","r","o","u","t","i",
              "n","g"," ","e","r","r","o","r">>

\* the except clause missing: what the primary path raises reaches the caller
route_unguarded(parsed) == parsed

\* the except clause of route_query
route_or_fallback(parsed) ==
    IF parsed.raised THEN QueryRoute("simple", T_fallback, None) ELSE parsed

\* QueryRouter.route_query; gen is what routing_chain.invoke does: it raises or it
\* returns the reply text
route_query(query, gen) ==
    route_or_fallback(
        IF gen.kind = "raise" THEN [raised |-> TRUE]
        ELSE parse_routing_response(gen.text, query))

-----------------------------------------------------------------------------
(* the router's inputs and its state machine *)

MaxQueryParts == 2

\* the words queries are made of: every cue of the heuristic, cased variants, and
\* fillers that join with a cue into a longer word
QueryWords ==
    AggregationKeywords \cup CrossDocumentKeywords \cup ComplexKeywords
    \cup {<<"H","o","w"," ","M","a","n","y">>, <<" ","x"," ">>}

Queries ==
    {concat(parts) : parts \in UNION {[1..n -> QueryWords] : n \in 0..MaxQueryParts}}

TypeLines ==
    {<< >>, <<"T","y","p","e",":"," ","s","i","m","p","l","e">>, <<"t","y","p","e",":"," ","A","g","g","r","e","g","a","t","i","o","n">>, <<" "," ","T","Y","P","E",":"," "," ","C","o","m","p","l","e","x"," ","q","u","e","r",
              "y"," ">>}

ReasoningLines == {<< >>, <<"R","e","a","s","o","n","i","n","g",":"," ","n","e","e","d","s"," ","t","o","o","l",
              "s">>}

FilterLines ==
    {<< >>, <<"F","i","l","t","e","r",":"," ","n","o","n","e">>, <<"F","i","l","t","e","r",":"," ","{","\"","g","r","a","d","e","\"",":"," ","\"","O",
              "\"","}">>, <<"F","i","l","t","e","r",":"," ","[","{","\"","a","\"",":"," ","\"","b","\"","}","]">>,
     <<"F","i","l","t","e","r",":"," ","g","r","a","d","e",":"," ","O">>}

\* the replies of the classifier: a Type, a Reasoning and a Filter line, each present
\* or not
Replies ==
    {join(SelectSeq(<<t, r, f>>, LAMBDA l : l # << >>), <<"\n">>) :
        t \in TypeLines, r \in ReasoningLines, f \in FilterLines}

\* what routing_chain.invoke can do
GeneratorBehaviours ==
    {[kind |-> "raise"]} \cup {[kind |-> "reply", text |-> t] : t \in Replies}

\* the other components at rest while the router runs
IdleAgent ==
    /\ a_pc = "idle"
    /\ a_variant = "invoke"
    /\ a_max_iterations = 10
    /\ a_query = None
    /\ a_hint = None
    /\ a_messages = << >>
    /\ a_step = 0
    /\ a_events = << >>
    /\ a_result = None
    /\ a_error = ""
    /\ a_raised = FALSE
    /\ a_ceiling = FALSE

\* the calculator at rest
IdleCalculator ==
    /\ c_pc = "idle"
    /\ c_expression = None
    /\ c_result = None
    /\ c_evaluated = FALSE
    /\ c_raised = FALSE

\* the conflict detector at rest
IdleDetect ==
    /\ d_pc = "idle"
    /\ d_teacher = None
    /\ d_context = None
    /\ d_schedule = << >>
    /\ d_conflicts = << >>
    /\ d_result = None
    /\ d_raised = FALSE

\* the CSV exporter at rest: no invocation, no file
IdleExport ==
    /\ x_proc = << >>
    /\ x_files = << >>

\* the document search at rest
IdleSearch ==
    /\ s_pc = "idle"
    /\ s_query = None
    /\ s_document_type = None
    /\ s_store = None
    /\ s_searched = FALSE
    /\ s_result = None
    /\ s_raised = FALSE

\* the chat application before any session
IdleApp ==
    /\ h_dir = "absent"
    /\ h_vector_store_manager = None
    /\ h_qa_chain = None
    /\ h_query_router = None
    /\ h_agent = None
    /\ h_made = None
    /\ h_last = None
    /\ h_calls = 0
    /\ h_session = None

\* no run of the executor with batches of tool calls
IdleTools ==
    /\ t_pc = "idle"
    /\ t_variant = "invoke"
    /\ t_messages = << >>
    /\ t_batch = << >>
    /\ t_started = {}
    /\ t_running = {}
    /\ t_finished = {}
    /\ t_events = << >>

\* the router at rest while another component runs
IdleRouter ==
    /\ r_pc = "idle"
    /\ r_query = << >>
    /\ r_gen = [kind |-> "raise"]
    /\ r_route = None
    /\ r_raised = FALSE

InitRouter ==
    /\ r_pc = "start"
    /\ r_query \in Queries
    /\ r_gen \in GeneratorBehaviours
    /\ r_route = None
    /\ r_raised = FALSE
    /\ IdleAgent
    /\ IdleDetect
    /\ IdleCalculator
    /\ IdleExport
    /\ IdleSearch
    /\ IdleTools
    /\ IdleApp

\* router.route_query(query)
RouteQuery ==
    /\ r_pc = "start"
    /\ LET res == route_query(r_query, r_gen)
       IN  /\ r_raised' = res.raised
           /\ r_route' = IF res.raised THEN None ELSE res.route
    /\ r_pc' = "done"
    /\ UNCHANGED <<r_query, r_gen>>
    /\ UNCHANGED <<avars, dvars, cvars, xvars, svars, tvars, hvars>>

NextRouter == RouteQuery

SpecRouter == InitRouter /\ [][NextRouter]_vars

\* the words a Type field is made of
TypeWords ==
    { <<"c","r","o","s","s">>, <<"m","u","l","t","i">>, <<"a","g","g","r","e","g","a","t","i","o","n">>, <<"c","o","u","n","t">>, <<"c","o","m","p","l","e","x">>, <<"s","i","m","p","l","e">>,
      <<"C","r","o","s","s","-","D","o","c","u","m","e","n","t">>, <<"C","O","U","N","T">>, <<>>, <<"l","o","o","k","u","p">>, <<"a","c","c","o","u","n","t","s">> }

\* at most this many words in a Type field
MaxTypeWords == 2

RECURSIVE TypeStrings(_)
\* the Type fields of up to n words
TypeStrings(n) ==
    IF n = 0 THEN {<< >>}
    ELSE TypeStrings(n - 1)
           \cup {s \o <<" ">> \o w : s \in TypeStrings(n - 1) \ {<< >>}, w \in TypeWords}
           \cup TypeWords

\* replies with a Type line, and the reply without one
TypeReplies ==
    {[kind |-> "reply", text |-> <<"T","y","p","e",":">> \o pad \o s \o <<"\n","R","e","a","s","o","n","i","n","g",":"," ","r">>] :
        s \in TypeStrings(MaxTypeWords), pad \in {<< >>, <<" ">>}}
      \cup {[kind |-> "reply", text |-> <<"R","e","a","s","o","n","i","n","g",":"," ","r">>]}

\* the router on replies that differ in their Type field
InitRouterTypes ==
    /\ r_pc = "start"
    /\ r_query \in {<<"h","o","w"," ","m","a","n","y">>, <<"l","i","s","t"," ","a","l","l">>}
    /\ r_gen \in TypeReplies
    /\ r_route = None
    /\ r_raised = FALSE
    /\ IdleAgent
    /\ IdleDetect
    /\ IdleCalculator
    /\ IdleExport
    /\ IdleSearch
    /\ IdleTools
    /\ IdleApp

SpecRouterTypes == InitRouterTypes /\ [][NextRouter]_vars

\* Filter fields that are a well-formed JSON object
JsonObjectFilters ==
    { <<"{","\"","g","r","a","d","e","\"",":"," ","\"","O","\"","}">>, <<"{","\"","d","o","c","u","m","e","n","t","_","t","y","p","e","\"",":"," ","\"","t",
              "i","m","e","t","a","b","l","e","\"",","," ","\"","s","e","c","t","i","o","n","\"",
              ":"," ","\"","A","\"","}">>, <<"{","}">> }

\* Filter fields that are a single key: value pair
KeyValueFilters == { <<"g","r","a","d","e",":"," ","O">>, <<"\"","s","e","c","t","i","o","n","\"",":"," ","'","A","'">>, <<"d","o","c","u","m","e","n","t","_","t","y","p","e",":","t","i","m","e","t","a","b",
              "l","e">> }

\* Filter fields that say there is no filter
EmptyFilters == { <<>>, <<"n","o","n","e">>, <<"N","o","n","e">>, <<"N","O","N","E">> }

\* Filter fields that are JSON gone wrong
MalformedJsonFilters ==
    { <<"{","\"","g","r","a","d","e","\"",":"," ","\"","O","\"">>, <<"{","g","r","a","d","e","}">>, <<"{","\"","g","r","a","d","e","\""," ","\"","O","\"","}">>, <<"{","'","g","r","a","d","e","'",":"," ","'","O","'","}">>, <<"{","\"","g","r","a","d","e","\"",":"," ","\"","O","\"","}","}">> }

\* Filter fields that are JSON, but no object
JsonListFilters == { <<"[","{","\"","a","\"",":"," ","\"","b","\"","}","]">>, <<"[","\"","a","\"","]">> }

\* Filter fields that are free text
FreeTextFilters == { <<"n","o"," ","f","i","l","t","e","r"," ","n","e","e","d","e","d">>, <<"o","n","l","y"," ","t","i","m","e","t","a","b","l","e"," ","d","o","c","u","m","e",
              "n","t","s">> }

FilterFields ==
    JsonObjectFilters \cup KeyValueFilters \cup EmptyFilters \cup MalformedJsonFilters
      \cup JsonListFilters \cup FreeTextFilters

\* the lines of a reply before its Filter line
FilterReplyPrefixes == { <<"T","y","p","e",":"," ","s","i","m","p","l","e","\n","R","e","a","s","o","n","i",
              "n","g",":"," ","r">>, <<"T","y","p","e",":"," ","c","o","u","n","t">> }

\* replies with a Filter line, and the replies without one
FilterReplies ==
    {[kind |-> "reply", text |-> prefix \o <<"\n","F","i","l","t","e","r",":"," ">> \o f] :
        prefix \in FilterReplyPrefixes, f \in FilterFields}
      \cup {[kind |-> "reply", text |-> prefix] : prefix \in FilterReplyPrefixes}

\* the router on replies that differ in their Filter field
InitRouterFilters ==
    /\ r_pc = "start"
    /\ r_query \in {<<"h","o","w"," ","m","a","n","y">>, <<"l","i","s","t"," ","a","l","l">>, <<"h","e","l","l","o">>}
    /\ r_gen \in FilterReplies
    /\ r_route = None
    /\ r_raised = FALSE
    /\ IdleAgent
    /\ IdleDetect
    /\ IdleCalculator
    /\ IdleExport
    /\ IdleSearch
    /\ IdleTools
    /\ IdleApp

SpecRouterFilters == InitRouterFilters /\ [][NextRouter]_vars

-----------------------------------------------------------------------------
(* agent.py: EducationalDocumentAgent over the LangGraph ReAct executor *)

\* max_iterations: int = 10, the default of __init__ (create_agent passes none)
DefaultMaxIterations == 10

\* the executor is created by create_react_agent(model, tools) and invoked with no
\* config: the step budget of a run is the library's default recursion limit
RecursionLimit == 25

MaxConfiguredIterations == 2

\* the values of max_iterations an agent is constructed with
IterationCeilings == (1..MaxConfiguredIterations) \cup {DefaultMaxIterations}

\* the names of the tools of create_agent_tools
ToolNames ==
    {"calculator_tool", "detect_conflicts_tool", "export_csv_tool", "search_documents_tool"}

\* the tool names the Generator asks for: a registered one and one that is not
RequestedTools == {"calculator_tool", "no_such_tool"}

AgentVariants == {"invoke", "ainvoke", "astream"}

\* the question and the query-type hint; None stands for a value that is no str
AgentQueries == {PyStr(<<"F","i","n","d"," ","c","o","n","f","l","i","c","t","s">>), None}

AgentHints == {PyStr(<<"c","o","m","p","l","e","x">>), PyStr(<<"A","g","g","r","e","g","a","t","i","o","n">>), None}

\* prompts.get_instruction_for_query_type
get_instruction_for_query_type(query_type) ==
    IF query_type.t # "str" THEN [raised |-> TRUE, error |-> "AttributeError"]
    ELSE [raised |-> FALSE,
          val |-> CASE lower(query_type.v) = <<"s","i","m","p","l","e">> -> "SIMPLE_QUERY_INSTRUCTION"
                    [] lower(query_type.v) = <<"c","r","o","s","s","_","d","o","c","u","m","e","n","t">> -> "CROSS_DOCUMENT_INSTRUCTION"
                    [] lower(query_type.v) = <<"a","g","g","r","e","g","a","t","i","o","n">> -> "AGGREGATION_INSTRUCTION"
                    [] lower(query_type.v) = <<"c","o","m","p","l","e","x">> -> "COMPLEX_INSTRUCTION"
                    [] OTHER -> "SIMPLE_QUERY_INSTRUCTION"]

\* the first statements of the try block: the log line slices the query, the
\* instruction is looked up, the enhanced query becomes the user message
enhanced_query(query, query_type) ==
    IF query.t # "str" THEN [raised |-> TRUE, error |-> "TypeError"]
    ELSE IF get_instruction_for_query_type(query_type).raised
    THEN get_instruction_for_query_type(query_type)
    ELSE [raised |-> FALSE,
          val |-> [role |-> "user", tool |-> "",
                   content |-> <<get_instruction_for_query_type(query_type).val,
                                 "\n\nQuestion: ", "query">>]]

\* messages of the executor's state
AIToolCall(name) == [role |-> "ai", tool |-> name, content |-> << >>]

AIFinal == [role |-> "ai", tool |-> "", content |-> <<"final answer">>]

\* what the executor's agent node answers when the step budget cannot hold another
\* tool call
AIOutOfSteps ==
    [role |-> "ai", tool |-> "", content |-> <<"Sorry, need more steps to process this request.">>]

\* a tools node that runs whatever name is requested
ToolMessageAnyName(name) ==
    [role |-> "tool", tool |-> name, content |-> <<"result of ", name>>]

\* the tools node: the tool's text, or the error text for a name that is not registered
ToolMessage(name) ==
    [role |-> "tool", tool |-> name,
     content |-> IF name \in ToolNames THEN <<"result of ", name>>
                 ELSE <<"Error: ", name, " is not a valid tool">>]

\* the result extracted from the executor's messages (invoke, ainvoke)
agent_result(messages) ==
    [output |-> IF Len(messages) > 0 THEN messages[Len(messages)].content
                ELSE <<"No response generated">>,
     intermediate_steps |-> IF Len(messages) > 1 THEN SubSeq(messages, 1, Len(messages) - 1)
                            ELSE << >>]

\* str(e) in the user-facing failure text
error_output(e) == <<"I encountered an error while processing your question: ", e>>

\* the except clause of invoke and ainvoke: the result returned
error_result(e) == [output |-> error_output(e), intermediate_steps |-> << >>]

\* the except clause of astream: the event yielded
error_event(e) == [output |-> error_output(e)]

\* no except clause: the exception leaves the method
except_missing(variant, e, events) ==
    [raised |-> TRUE, result |-> None, events |-> events]

\* except Exception as e: of invoke, ainvoke and astream
except_clause(variant, e, events) ==
    [raised |-> FALSE,
     result |-> IF variant = "astream" THEN None ELSE error_result(e),
     events |-> IF variant = "astream" THEN Append(events, error_event(e)) ELSE events]

\* an update of the executor's stream: the node that ran and the message it added
stream_event(node, message) == [node |-> node, message |-> message]

\* the events yielded so far, with the update of a node when the run is streamed
yielded(events, variant, node, message) ==
    IF variant = "astream" THEN Append(events, stream_event(node, message)) ELSE events

InitAgent ==
    /\ a_pc = "start"
    /\ a_variant \in AgentVariants
    /\ a_max_iterations \in IterationCeilings
    /\ a_query \in AgentQueries
    /\ a_hint \in AgentHints
    /\ a_messages = << >>
    /\ a_step = 0
    /\ a_events = << >>
    /\ a_result = None
    /\ a_error = ""
    /\ a_raised = FALSE
    /\ a_ceiling = FALSE
    /\ IdleRouter
    /\ IdleDetect
    /\ IdleCalculator
    /\ IdleExport
    /\ IdleSearch
    /\ IdleTools
    /\ IdleApp

\* entering the try block, up to the call of the executor
AgentEnter ==
    /\ a_pc = "start"
    /\ IF enhanced_query(a_query, a_hint).raised
       THEN /\ a_error' = enhanced_query(a_query, a_hint).error
            /\ a_pc' = "except"
            /\ UNCHANGED a_messages
       ELSE /\ a_messages' = <<enhanced_query(a_query, a_hint).val>>
            /\ a_pc' = "agent"
            /\ UNCHANGED a_error
    /\ UNCHANGED <<a_variant, a_max_iterations, a_query, a_hint, a_step, a_events,
                   a_result, a_raised, a_ceiling>>
    /\ UNCHANGED <<rvars, dvars, cvars, xvars, svars, tvars, hvars>>

\* whether the step budget holds the step about to run, a tools step and the agent
\* step after it
HasStepsForTool(step) == step + 3 <= RecursionLimit

\* agent node: the Generator asks for a tool
AgentRequestsTool ==
    /\ a_pc = "agent"
    /\ HasStepsForTool(a_step)
    /\ \E name \in RequestedTools :
          /\ a_messages' = Append(a_messages, AIToolCall(name))
          /\ a_events' = yielded(a_events, a_variant, "agent", AIToolCall(name))
    /\ a_step' = a_step + 1
    /\ a_pc' = "tools"
    /\ UNCHANGED <<a_variant, a_max_iterations, a_query, a_hint, a_result, a_error,
                   a_raised, a_ceiling>>
    /\ UNCHANGED <<rvars, dvars, cvars, xvars, svars, tvars, hvars>>

\* agent node: the Generator asks for a tool and the step budget is used up; the
\* executor either answers with its out-of-steps message or raises
\* GraphRecursionError, depending on the library's accounting
AgentOutOfSteps ==
    /\ a_pc = "agent"
    /\ ~HasStepsForTool(a_step)
    /\ a_ceiling' = TRUE
    /\ a_step' = a_step + 1
    /\ \/ /\ a_messages' = Append(a_messages, AIOutOfSteps)
          /\ a_events' = yielded(a_events, a_variant, "agent", AIOutOfSteps)
          /\ a_pc' = "returned"
          /\ UNCHANGED a_error
       \/ /\ a_error' = "GraphRecursionError"
          /\ a_pc' = "except"
          /\ UNCHANGED <<a_messages, a_events>>
    /\ UNCHANGED <<a_variant, a_max_iterations, a_query, a_hint, a_result, a_raised>>
    /\ UNCHANGED <<rvars, dvars, cvars, xvars, svars, tvars, hvars>>

\* agent node: the Generator emits the final answer
AgentFinalAnswer ==
    /\ a_pc = "agent"
    /\ a_messages' = Append(a_messages, AIFinal)
    /\ a_events' = yielded(a_events, a_variant, "agent", AIFinal)
    /\ a_step' = a_step + 1
    /\ a_pc' = "returned"
    /\ UNCHANGED <<a_variant, a_max_iterations, a_query, a_hint, a_result, a_error,
                   a_raised, a_ceiling>>
    /\ UNCHANGED <<rvars, dvars, cvars, xvars, svars, tvars, hvars>>

\* agent node: the Generator call raises
AgentGeneratorRaises ==
    /\ a_pc = "agent"
    /\ a_error' = "GeneratorError"
    /\ a_pc' = "except"
    /\ UNCHANGED <<a_variant, a_max_iterations, a_query, a_hint, a_messages, a_step,
                   a_events, a_result, a_raised, a_ceiling>>
    /\ UNCHANGED <<rvars, dvars, cvars, xvars, svars, tvars, hvars>>

\* tools node: the requested tool runs and its observation joins the messages
AgentRunsTool ==
    /\ a_pc = "tools"
    /\ a_messages' = Append(a_messages, ToolMessage(a_messages[Len(a_messages)].tool))
    /\ a_events' = yielded(a_events, a_variant, "tools",
                           ToolMessage(a_messages[Len(a_messages)].tool))
    /\ a_step' = a_step + 1
    /\ a_pc' = "agent"
    /\ UNCHANGED <<a_variant, a_max_iterations, a_query, a_hint, a_result, a_error,
                   a_raised, a_ceiling>>
    /\ UNCHANGED <<rvars, dvars, cvars, xvars, svars, tvars, hvars>>

\* the executor returned: invoke and ainvoke extract the result, astream ends
AgentReturn ==
    /\ a_pc = "returned"
    /\ a_result' = IF a_variant = "astream" THEN None ELSE agent_result(a_messages)
    /\ a_pc' = "done"
    /\ UNCHANGED <<a_variant, a_max_iterations, a_query, a_hint, a_messages, a_step,
                   a_events, a_error, a_raised, a_ceiling>>
    /\ UNCHANGED <<rvars, dvars, cvars, xvars, svars, tvars, hvars>>

\* the exception reaches the except clause of the method
AgentExcept ==
    /\ a_pc = "except"
    /\ a_raised' = except_clause(a_variant, a_error, a_events).raised
    /\ a_result' = except_clause(a_variant, a_error, a_events).result
    /\ a_events' = except_clause(a_variant, a_error, a_events).events
    /\ a_pc' = "done"
    /\ UNCHANGED <<a_variant, a_max_iterations, a_query, a_hint, a_messages, a_step,
                   a_error, a_ceiling>>
    /\ UNCHANGED <<rvars, dvars, cvars, xvars, svars, tvars, hvars>>

NextAgent ==
    \/ AgentEnter
    \/ AgentRequestsTool
    \/ AgentOutOfSteps
    \/ AgentFinalAnswer
    \/ AgentGeneratorRaises
    \/ AgentRunsTool
    \/ AgentReturn
    \/ AgentExcept

SpecAgent == InitAgent /\ [][NextAgent]_vars

(***************************************************************************)
(* One run of the executor with the tool calls of a cycle in view.  The    *)
(* agent is built by create_react_agent(model, tools) with nothing that    *)
(* limits the Generator to one tool call per message: an AI message        *)
(* carries a list of tool calls, the tools node starts every call of the   *)
(* list (a worker thread each in invoke, a task each in ainvoke and        *)
(* astream), waits for all of them and then adds their observations to the *)
(* messages in the order of the calls.                                     *)
(***************************************************************************)

\* at most this many tool calls in one AI message
MaxToolCalls == 2

\* at most this many cycles with tool calls in a run
MaxCycles == 2

\* the ids of the tool calls made so far
call_ids(messages) ==
    UNION {{messages[i].calls[k] : k \in 1..Len(messages[i].calls)} :
              i \in {j \in 1..Len(messages) : messages[j].role = "ai"}}

\* the ids of the tool calls whose observation is in the messages
observed_ids(messages) ==
    {messages[i].call : i \in {j \in 1..Len(messages) : messages[j].role = "tool"}}

\* an AI message with n tool calls, numbered after the calls made so far
AIToolCalls(made, n) == [role |-> "ai", calls |-> [k \in 1..n |-> made + k]]

\* the AI message of the final answer
AIAnswer == [role |-> "ai", calls |-> << >>]

\* the observation of a tool call
Observation(id) == [role |-> "tool", call |-> id]

\* the observations of a batch, in the order of its calls
observations(batch) == [k \in 1..Len(batch) |-> Observation(batch[k])]

\* the update a node streams: the messages it added
node_update(node, added) == [node |-> node, messages |-> added]

\* the events yielded so far, with the update when the run is streamed
streamed(events, variant, node, added) ==
    IF variant = "astream" THEN Append(events, node_update(node, added)) ELSE events

InitTools ==
    /\ t_pc = "agent"
    /\ t_variant \in AgentVariants
    /\ t_messages = << >>
    /\ t_batch = << >>
    /\ t_started = {}
    /\ t_running = {}
    /\ t_finished = {}
    /\ t_events = << >>
    /\ IdleRouter
    /\ IdleAgent
    /\ IdleDetect
    /\ IdleCalculator
    /\ IdleExport
    /\ IdleSearch
    /\ IdleApp

\* agent node: the Generator's message asks for n tools
ToolsRequested ==
    /\ t_pc = "agent"
    /\ Cardinality({i \in 1..Len(t_messages) : t_messages[i].role = "ai"}) < MaxCycles
    /\ \E n \in 1..MaxToolCalls :
          /\ t_messages' = Append(t_messages,
                                  AIToolCalls(Cardinality(call_ids(t_messages)), n))
          /\ t_batch' = AIToolCalls(Cardinality(call_ids(t_messages)), n).calls
          /\ t_events' = streamed(t_events, t_variant, "agent",
                                  <<AIToolCalls(Cardinality(call_ids(t_messages)), n)>>)
    /\ t_pc' = "tools"
    /\ UNCHANGED <<t_variant, t_started, t_running, t_finished>>
    /\ UNCHANGED <<rvars, avars, dvars, cvars, xvars, svars, hvars>>

\* tools node: the next call of the batch is handed to a worker and starts
ToolStarts ==
    /\ t_pc = "tools"
    /\ \E k \in 1..Len(t_batch) :
          /\ t_batch[k] \notin t_started
          /\ \A j \in 1..(k - 1) : t_batch[j] \in t_started
          /\ t_started' = t_started \cup {t_batch[k]}
          /\ t_running' = t_running \cup {t_batch[k]}
    /\ UNCHANGED <<t_pc, t_variant, t_messages, t_batch, t_finished, t_events>>
    /\ UNCHANGED <<rvars, avars, dvars, cvars, xvars, svars, hvars>>

\* a running tool returns its text
ToolReturns ==
    /\ t_pc = "tools"
    /\ \E id \in t_running :
          /\ t_running' = t_running \ {id}
          /\ t_finished' = t_finished \cup {id}
    /\ UNCHANGED <<t_pc, t_variant, t_messages, t_batch, t_started, t_events>>
    /\ UNCHANGED <<rvars, avars, dvars, cvars, xvars, svars, hvars>>

\* tools node: every call of the batch has returned; the observations join the
\* messages and are streamed as one update
ToolsObserved ==
    /\ t_pc = "tools"
    /\ \A k \in 1..Len(t_batch) : t_batch[k] \in t_finished
    /\ t_messages' = t_messages \o observations(t_batch)
    /\ t_events' = streamed(t_events, t_variant, "tools", observations(t_batch))
    /\ t_batch' = << >>
    /\ t_pc' = "agent"
    /\ UNCHANGED <<t_variant, t_started, t_running, t_finished>>
    /\ UNCHANGED <<rvars, avars, dvars, cvars, xvars, svars, hvars>>

\* agent node: the Generator's message is the final answer
ToolsAnswered ==
    /\ t_pc = "agent"
    /\ t_messages' = Append(t_messages, AIAnswer)
    /\ t_events' = streamed(t_events, t_variant, "agent", <<AIAnswer>>)
    /\ t_pc' = "done"
    /\ UNCHANGED <<t_variant, t_batch, t_started, t_running, t_finished>>
    /\ UNCHANGED <<rvars, avars, dvars, cvars, xvars, svars, hvars>>

NextTools ==
    \/ ToolsRequested
    \/ ToolStarts
    \/ ToolReturns
    \/ ToolsObserved
    \/ ToolsAnswered

SpecTools == InitTools /\ [][NextTools]_vars

-----------------------------------------------------------------------------
(* tools.py: detect_schedule_conflicts *)

\* s[k], and "" outside the text
CharAt(s, k) == IF k \in 1..Len(s) THEN s[k] ELSE ""

IsDigit(c) == c \in Digits

\* \w
IsWord(c) == IsUpper(c) \/ IsLower(c) \/ IsDigit(c) \/ c = "_"

RECURSIVE word_end(_, _)
\* the end of the run of word characters that starts at p: the index after it
word_end(s, p) == IF IsWord(CharAt(s, p)) THEN word_end(s, p + 1) ELSE p

RECURSIVE space_end(_, _)
\* the end of the run of whitespace that starts at p: the index after it
space_end(s, p) == IF IsSpace(CharAt(s, p)) THEN space_end(s, p + 1) ELSE p

\* \d{1,2}: at p: the index of the colon, 0 when there is no match
colon_at(s, p) ==
    IF IsDigit(CharAt(s, p)) /\ CharAt(s, p + 1) = ":" THEN p + 1
    ELSE IF IsDigit(CharAt(s, p)) /\ IsDigit(CharAt(s, p + 1)) /\ CharAt(s, p + 2) = ":"
    THEN p + 2
    ELSE 0

\* [AP]M at k: the index after it, 0 when there is no match
ampm_at(s, k) ==
    IF CharAt(s, k) \in {"A", "P"} /\ CharAt(s, k + 1) = "M" THEN k + 2 ELSE 0

\* \d{2}\s+[AP]M after the colon at c: the index after it, 0 when there is no match
time_after_colon(s, c) ==
    IF c # 0 /\ IsDigit(CharAt(s, c + 1)) /\ IsDigit(CharAt(s, c + 2))
             /\ IsSpace(CharAt(s, c + 3))
    THEN ampm_at(s, space_end(s, c + 3))
    ELSE 0

\* \d{1,2}:\d{2}\s+[AP]M at p: the index after it, 0 when there is no match
time_end(s, p) == time_after_colon(s, colon_at(s, p))

\* \s*[-:]\s*\d{1,2}:\d{2}\s+[AP]M at k, k being past the whitespace
window_end(s, k) ==
    IF CharAt(s, k) \in {"-", ":"} THEN time_end(s, space_end(s, k + 1)) ELSE 0

\* the rest of time_pattern after the start time that ends before e1
after_start_time(s, e1) == IF e1 = 0 THEN 0 ELSE window_end(s, space_end(s, e1))

\* \s+ and the rest of time_pattern after the word that ends before we
after_day(s, we) ==
    IF IsSpace(CharAt(s, we)) THEN after_start_time(s, time_end(s, space_end(s, we)))
    ELSE 0

\* time_pattern matched at p: the index after the match, 0 when there is no match
time_pattern_at(s, p) ==
    IF IsWord(CharAt(s, p)) THEN after_day(s, word_end(s, p)) ELSE 0

\* the groups of time_pattern matched at p
time_groups(s, p) ==
    [day |-> SubSeq(s, p, word_end(s, p) - 1),
     time |-> SubSeq(s, space_end(s, word_end(s, p)),
                     time_end(s, space_end(s, word_end(s, p))) - 1)]

RECURSIVE time_search(_, _)
\* the leftmost position from p on where time_pattern matches, 0 when there is none
time_search(line, p) ==
    IF p > Len(line) THEN 0
    ELSE IF time_pattern_at(line, p) # 0 THEN p
    ELSE time_search(line, p + 1)

\* re.search(time_pattern, line): the position of the match, 0 for no match
time_match(line) == time_search(line, 1)

\* s[p:] starts with the word, letter case ignored
word_at(s, p, word) == \A j \in 1..Len(word) : lower_char(CharAt(s, p + j - 1)) = word[j]

RECURSIVE roman_end(_, _)
\* the end of the run of I, V, X (either case) that starts at p
roman_end(s, p) ==
    IF lower_char(CharAt(s, p)) \in {"i", "v", "x"} THEN roman_end(s, p + 1) ELSE p

\* O-?Level and A-?Level at p: the index after it, 0 when there is no match
letter_level_at(s, p) ==
    IF lower_char(CharAt(s, p)) \notin {"o", "a"} THEN 0
    ELSE IF word_at(s, p + 1, <<"-","l","e","v","e","l">>) THEN p + 7
    ELSE IF word_at(s, p + 1, <<"l","e","v","e","l">>) THEN p + 6
    ELSE 0

\* Level-?[IVX]+ at p: the index after it, 0 when there is no match
level_roman_at(s, p) ==
    IF ~word_at(s, p, <<"l","e","v","e","l">>) THEN 0
    ELSE IF CharAt(s, p + 5) = "-" /\ roman_end(s, p + 6) > p + 6 THEN roman_end(s, p + 6)
    ELSE IF roman_end(s, p + 5) > p + 5 THEN roman_end(s, p + 5)
    ELSE 0

\* (O-?Level|A-?Level|Level-?[IVX]+) at p
level_at(s, p) ==
    IF letter_level_at(s, p) # 0 THEN letter_level_at(s, p) ELSE level_roman_at(s, p)

\* [A-Z] with IGNORECASE at k, k being past the whitespace after Section
section_letter_at(s, k) ==
    IF IsUpper(CharAt(s, k)) \/ IsLower(CharAt(s, k)) THEN k + 1 ELSE 0

\* Section\s+([A-Z]) at k, k being past the whitespace after the level
section_at(s, k) ==
    IF word_at(s, k, <<"s","e","c","t","i","o","n">>) /\ IsSpace(CharAt(s, k + 7))
    THEN section_letter_at(s, space_end(s, k + 7))
    ELSE 0

\* \s+Section\s+([A-Z]) after the level that ends before e
after_level(s, e) ==
    IF e # 0 /\ IsSpace(CharAt(s, e)) THEN section_at(s, space_end(s, e)) ELSE 0

\* the section pattern matched at p: the index after the match, 0 for no match
section_pattern_at(s, p) == after_level(s, level_at(s, p))

\* \b([OA]\d[A-Z])\b matched at p: the index after the match, 0 for no match
code_pattern_at(s, p) ==
    IF /\ ~IsWord(CharAt(s, p - 1))
       /\ CharAt(s, p) \in {"O", "A"}
       /\ IsDigit(CharAt(s, p + 1))
       /\ IsUpper(CharAt(s, p + 2))
       /\ ~IsWord(CharAt(s, p + 3))
    THEN p + 3
    ELSE 0

\* group(0) of the section pattern found at p
section_label(line, p) == SubSeq(line, p, section_pattern_at(line, p) - 1)

\* group(0) of the class code found at p, "Unknown Class" when neither pattern matched
code_label(line, p) ==
    IF p = 0 THEN <<"U","n","k","n","o","w","n"," ","C","l","a","s","s">> ELSE SubSeq(line, p, p + 2)

RECURSIVE section_search(_, _)
\* the leftmost position from p on where the section pattern matches, 0 for none
section_search(line, p) ==
    IF p > Len(line) THEN 0
    ELSE IF section_pattern_at(line, p) # 0 THEN p
    ELSE section_search(line, p + 1)

RECURSIVE code_search(_, _)
\* the leftmost position from p on where the class code matches, 0 for none
code_search(line, p) ==
    IF p > Len(line) THEN 0
    ELSE IF code_pattern_at(line, p) # 0 THEN p
    ELSE code_search(line, p + 1)

\* class_name, given the position of the section pattern's match
class_name_from(line, p) ==
    IF p # 0 THEN section_label(line, p) ELSE code_label(line, code_search(line, 1))

\* a label that prefers the class code to the section pattern
class_name_code_first(line) ==
    IF code_search(line, 1) # 0 THEN code_label(line, code_search(line, 1))
    ELSE class_name_from(line, section_search(line, 1))

\* class_name of a line
class_name(line) == class_name_from(line, section_search(line, 1))

\* the entry appended for a line whose time_pattern match is at p
schedule_entry(line, p) ==
    [day |-> time_groups(line, p).day,
     time |-> time_groups(line, p).time,
     class |-> class_name(line),
     line |-> strip(line)]

\* the body of the loop over the lines, p being the position of the time match
schedule_add(acc, line, p) ==
    IF p = 0 THEN acc ELSE Append(acc, schedule_entry(line, p))

\* a test that takes every line as naming the teacher
mentions_always(line, teacher_low) == TRUE

\* teacher_name.lower() in line.lower()
mentions(line, teacher_low) == contains(lower(line), teacher_low)

RECURSIVE schedule_of(_, _, _, _)
\* the loop over the lines: teacher_schedule
schedule_of(lines, k, teacher_low, acc) ==
    IF k > Len(lines) THEN acc
    ELSE IF mentions(lines[k], teacher_low)
    THEN schedule_of(lines, k + 1, teacher_low,
                     schedule_add(acc, lines[k], time_match(lines[k])))
    ELSE schedule_of(lines, k + 1, teacher_low, acc)

\* teacher_schedule for a teacher and a context that are both str
teacher_schedule(teacher_name, context) ==
    schedule_of(split(context, "\n"), 1, lower(teacher_name), << >>)

\* the elements of a list
Range(seq) == {seq[i] : i \in DOMAIN seq}

\* conflict_desc
conflict_desc(entry1, entry2) ==
    entry1.day \o <<" ">> \o entry1.time \o <<":"," ","T","e","a","c","h","i","n","g"," ","b","o","t","h"," ">> \o entry1.class
        \o <<" ","a","n","d"," ">> \o entry2.class

\* conflicts.append(conflict_desc) with no test of what the list holds
append_always(conflicts, desc) == Append(conflicts, desc)

\* if conflict_desc not in conflicts: conflicts.append(conflict_desc)
append_new(conflicts, desc) ==
    IF desc \in Range(conflicts) THEN conflicts ELSE Append(conflicts, desc)

\* the body of the inner loop
conflicts_add(conflicts, entry1, entry2) ==
    IF entry1.day = entry2.day /\ entry1.time = entry2.time
    THEN append_new(conflicts, conflict_desc(entry1, entry2))
    ELSE conflicts

RECURSIVE conflicts_of(_, _, _, _)
\* the two loops over teacher_schedule: entry1 at i, entry2 at j > i
conflicts_of(schedule, i, j, acc) ==
    IF i > Len(schedule) THEN acc
    ELSE IF j > Len(schedule) THEN conflicts_of(schedule, i + 1, i + 2, acc)
    ELSE conflicts_of(schedule, i, j + 1, conflicts_add(acc, schedule[i], schedule[j]))

DigitChars == <<"0","1","2","3","4","5","6","7","8","9">>

RECURSIVE str_int(_)
\* str(n) of a natural number
str_int(n) ==
    IF n < 10 THEN <<DigitChars[n + 1]>>
    ELSE str_int(n \div 10) \o <<DigitChars[(n % 10) + 1]>>

RECURSIVE report_lines(_, _, _)
\* the loop that appends "<i>. <conflict>\n" to the result
report_lines(conflicts, i, result) ==
    IF i > Len(conflicts) THEN result
    ELSE report_lines(conflicts, i + 1,
                      result \o str_int(i) \o <<"."," ">> \o conflicts[i] \o <<"\n">>)

\* the result when conflicts is not empty
conflict_report(teacher_name, conflicts) ==
    strip(report_lines(conflicts, 1,
                       <<"F","o","u","n","d"," ">> \o str_int(Len(conflicts))
                           \o <<" ","s","c","h","e","d","u","l","i","n","g"," ","c","o","n","f","l","i","c","t","(",
              "s",")"," ","f","o","r"," ">> \o teacher_name \o <<":","\n">>))

no_schedule(teacher_name) == <<"N","o"," ","s","c","h","e","d","u","l","e"," ","i","n","f","o","r","m","a","t","i",
              "o","n"," ","f","o","u","n","d"," ","f","o","r"," ">> \o teacher_name

no_conflicts(teacher_name) == <<"N","o"," ","s","c","h","e","d","u","l","i","n","g"," ","c","o","n","f","l","i","c",
              "t","s"," ","f","o","u","n","d"," ","f","o","r"," ">> \o teacher_name

\* the result after the loops
report_or_none(teacher_name, conflicts) ==
    IF Len(conflicts) > 0 THEN conflict_report(teacher_name, conflicts)
    ELSE no_conflicts(teacher_name)

\* what the try block returns, with teacher_schedule and conflicts as they stand
Returned(text, schedule, conflicts) ==
    [raised |-> FALSE, val |-> text, schedule |-> schedule, conflicts |-> conflicts]

\* the end of the try block, the loops over the pairs done
detect_report(teacher_name, schedule, conflicts) ==
    Returned(report_or_none(teacher_name, conflicts), schedule, conflicts)

\* the test of teacher_schedule left out
detect_unchecked(teacher_name, schedule) ==
    detect_report(teacher_name, schedule, conflicts_of(schedule, 1, 2, << >>))

\* if not teacher_schedule: ... and what follows it
detect_from(teacher_name, schedule) ==
    IF Len(schedule) = 0 THEN Returned(no_schedule(teacher_name), schedule, << >>)
    ELSE detect_report(teacher_name, schedule, conflicts_of(schedule, 1, 2, << >>))

\* the AttributeError of a method looked up on None
NoAttribute(name) == <<"'","N","o","n","e","T","y","p","e","'"," ","o","b","j","e","c","t"," ","h","a","s",
              " ","n","o"," ","a","t","t","r","i","b","u","t","e"," ","'">> \o name \o <<"'">>

\* the try block: context.split raises for a context that is no str, and
\* teacher_name.lower, reached for the first line, for a teacher_name that is no str
try_detect(teacher_name, context) ==
    IF context.t # "str" THEN [raised |-> TRUE, error |-> NoAttribute(<<"s","p","l","i","t">>)]
    ELSE IF teacher_name.t # "str" THEN [raised |-> TRUE, error |-> NoAttribute(<<"l","o","w","e","r">>)]
    ELSE detect_from(teacher_name.v, teacher_schedule(teacher_name.v, context.v))

\* no except clause: the exception leaves the function
detect_unguarded(tried) ==
    IF tried.raised
    THEN [raised |-> TRUE, val |-> << >>, schedule |-> << >>, conflicts |-> << >>]
    ELSE tried

\* except Exception as e: return f"Error analyzing schedule: {str(e)}"
detect_except(tried) ==
    IF tried.raised
    THEN Returned(<<"E","r","r","o","r"," ","a","n","a","l","y","z","i","n","g"," ","s","c","h","e","d",
              "u","l","e",":"," ">> \o tried.error, << >>, << >>)
    ELSE tried

detect_schedule_conflicts(teacher_name, context) ==
    detect_except(try_detect(teacher_name, context))

MaxLines == 3

\* schedule lines: the same slot with different classes, a section label, a lower-case
\* teacher, another day, another time, no class, another teacher, no time window,
\* an empty line
ScheduleLines ==
    {<<"M","o","n"," ","9",":","0","0"," ","A","M"," ","-"," ","1","0",":","0","0"," ","A","M",
       ":"," ","O","1","A"," ","(","A","l","i",")">>,
     <<"M","o","n"," ","9",":","0","0"," ","A","M"," ","-"," ","1","0",":","0","0"," ","A","M",
       ":"," ","O","1","B"," ","(","A","l","i",")">>,
     <<" "," ","M","o","n"," ","9",":","0","0"," ","A","M","-","9",":","4","5"," ","A","M"," ",
       "a","-","l","e","v","e","l"," ","s","e","c","t","i","o","n"," ","b"," ","a","l","i">>,
     <<"T","u","e"," ","9",":","0","0"," ","A","M"," ","-"," ","1","0",":","0","0"," ","A","M",
       ":"," ","O","1","A"," ","(","A","l","i",")">>,
     <<"M","o","n"," ","1","0",":","0","0"," ","A","M"," ","-"," ","1","1",":","0","0"," ","A",
       "M",":"," ","O","1","B"," ","(","A","l","i",")">>,
     <<"M","o","n"," ","9",":","0","0"," ","A","M"," ","-"," ","1","0",":","0","0"," ","A","M",
       ":"," ","L","a","b"," ","(","A","l","i",")">>,
     <<"M","o","n"," ","9",":","0","0"," ","A","M"," ","-"," ","1","0",":","0","0"," ","A","M",
       ":"," ","O","1","A"," ","(","B","o","b",")">>,
     <<"M","o","n"," ","9",":","0","0"," ","A","M",":"," ","O","1","A"," ","(","A","l","i",")">>,
     <<>>}

Contexts ==
    {PyStr(join(ls, <<"\n">>)) : ls \in UNION {[1..n -> ScheduleLines] : n \in 0..MaxLines}}
        \cup {None}

Teachers == {PyStr(<<"A","l","i">>), PyStr(<<"b","o","b">>), PyStr(<<>>), None}

InitDetect ==
    /\ d_pc = "start"
    /\ d_teacher \in Teachers
    /\ d_context \in Contexts
    /\ d_schedule = << >>
    /\ d_conflicts = << >>
    /\ d_result = None
    /\ d_raised = FALSE
    /\ IdleRouter
    /\ IdleAgent
    /\ IdleCalculator
    /\ IdleExport
    /\ IdleSearch
    /\ IdleTools
    /\ IdleApp

\* detect_schedule_conflicts(teacher_name, context); teacher_schedule and conflicts
\* are kept as they stand when the function returns
DetectScheduleConflicts ==
    /\ d_pc = "start"
    /\ \E out \in {detect_schedule_conflicts(d_teacher, d_context)} :
          /\ d_raised' = out.raised
          /\ d_result' = IF out.raised THEN None ELSE PyStr(out.val)
          /\ d_schedule' = out.schedule
          /\ d_conflicts' = out.conflicts
    /\ d_pc' = "done"
    /\ UNCHANGED <<d_teacher, d_context>>
    /\ UNCHANGED <<rvars, avars, cvars, xvars, svars, tvars, hvars>>

NextDetect == DetectScheduleConflicts

SpecDetect == InitDetect /\ [][NextDetect]_vars

\* the lines of a context of class labels are at most this many
MaxLabelLines == 2

\* what stands between the time window and the teacher in a line, with the verbose
\* '<Level> Section <Letter>' text and the compact '<O|A><digit><Letter>' token it
\* holds: compact before verbose, verbose before compact, a lower-case verbose
\* form, a compact token alone, neither, a roman level, a lower-case code, a code
\* inside a longer word
LabelCases ==
    {[body |-> <<"O","1","A"," ","O","-","L","e","v","e","l"," ","S","e","c","t","i","o","n"," ","B">>, verbose |-> <<"O","-","L","e","v","e","l"," ","S","e","c","t","i","o","n"," ","B">>, compact |-> <<"O","1","A">>],
     [body |-> <<"A","-","L","e","v","e","l"," ","S","e","c","t","i","o","n"," ","C"," ","A","2","B">>, verbose |-> <<"A","-","L","e","v","e","l"," ","S","e","c","t","i","o","n"," ","C">>, compact |-> <<"A","2","B">>],
     [body |-> <<"o","l","e","v","e","l"," ","s","e","c","t","i","o","n"," ","b"," ","O","1","A">>, verbose |-> <<"o","l","e","v","e","l"," ","s","e","c","t","i","o","n"," ","b">>, compact |-> <<"O","1","A">>],
     [body |-> <<"O","1","A">>, verbose |-> << >>, compact |-> <<"O","1","A">>],
     [body |-> <<"L","a","b">>, verbose |-> << >>, compact |-> << >>],
     [body |-> <<"L","e","v","e","l","-","I","V"," "," ","S","e","c","t","i","o","n"," ","A">>, verbose |-> <<"L","e","v","e","l","-","I","V"," "," ","S","e","c","t","i","o","n"," ","A">>, compact |-> << >>],
     [body |-> <<"o","1","a">>, verbose |-> << >>, compact |-> << >>],
     [body |-> <<"X","O","1","A">>, verbose |-> << >>, compact |-> << >>]}

\* the schedule line of a case
LabelLine(case) == <<"M","o","n"," ","9",":","0","0"," ","A","M"," ","-"," ","1","0",":","0","0"," ","A",
              "M"," ">> \o case.body \o <<" ","A","l","i">>

LabelContexts ==
    {PyStr(join([k \in 1..Len(cases) |-> LabelLine(cases[k])], <<"\n">>)) :
        cases \in UNION {[1..n -> LabelCases] : n \in 0..MaxLabelLines}}

InitDetectLabels ==
    /\ d_pc = "start"
    /\ d_teacher \in {PyStr(<<"A","l","i">>), PyStr(<<"a","l","i">>)}
    /\ d_context \in LabelContexts
    /\ d_schedule = << >>
    /\ d_conflicts = << >>
    /\ d_result = None
    /\ d_raised = FALSE
    /\ IdleRouter
    /\ IdleAgent
    /\ IdleCalculator
    /\ IdleExport
    /\ IdleSearch
    /\ IdleTools
    /\ IdleApp

SpecDetectLabels == InitDetectLabels /\ [][NextDetect]_vars

-----------------------------------------------------------------------------
(* tools.py: calculator *)

\* the values eval produces here: int, float, tuple, PyEllipsis. A float is the exact
\* fraction num/den in lowest terms, den a power of two, with the sign of a zero
PyInt(n) == [t |-> "int", n |-> n]

PyFloat(num, den, negzero) == [t |-> "float", num |-> num, den |-> den, negzero |-> negzero]

PyTuple(items) == [t |-> "tuple", items |-> items]

PyEllipsis == [t |-> "ellipsis"]

\* an exception raised while the expression is evaluated
Raised(kind, msg) == [t |-> "raised", kind |-> kind, msg |-> msg]

\* ZeroDivisionError; calculator makes no use of its message
ZeroDivisionError == Raised("ZeroDivisionError", << >>)

\* a value outside the arithmetic computed here: an int or a float that is not
\* held exactly, an operation on a tuple or on PyEllipsis, a starred element
Inexact == [t |-> "inexact"]

\* ints are computed up to this magnitude
IntLimit == 30000

\* floats are computed with denominators up to this power of two
DenLimit == 256

\* powers are computed up to this exponent
PowLimit == 20

Abs(n) == IF n < 0 THEN 0 - n ELSE n

RECURSIVE Gcd(_, _)
Gcd(a, b) == IF b = 0 THEN a ELSE Gcd(b, a % b)

PowersOfTwo == {1, 2, 4, 8, 16, 32, 64, 128, 256}

\* the int n, when it is within the magnitude computed
int_value(n) == IF Abs(n) <= IntLimit THEN PyInt(n) ELSE Inexact

\* the float num/den (den > 0) in lowest terms, g being gcd(|num|, den)
float_reduced(num, den, negzero, g) ==
    IF (den \div g) \in PowersOfTwo /\ (den \div g) <= DenLimit
       /\ Abs(num \div g) <= IntLimit
    THEN PyFloat(num \div g, den \div g, num = 0 /\ negzero)
    ELSE Inexact

\* the float num/den, den # 0; negzero is the sign of a zero result
float_value(num, den, negzero) ==
    IF Abs(num) > IntLimit * DenLimit \/ Abs(den) > IntLimit THEN Inexact
    ELSE IF den < 0 THEN float_reduced(0 - num, 0 - den, negzero, Gcd(Abs(num), Abs(den)))
    ELSE float_reduced(num, den, negzero, Gcd(Abs(num), den))

IsNumber(v) == v.t \in {"int", "float"}

Num(v) == IF v.t = "int" THEN v.n ELSE v.num

Den(v) == IF v.t = "int" THEN 1 ELSE v.den

\* the sign bit of a number: of a negative number and of the float -0.0
Negative(v) == Num(v) < 0 \/ (v.t = "float" /\ v.negzero)

\* floor(num / den) for den > 0
floor_pos(num, den) ==
    IF num >= 0 THEN num \div den ELSE 0 - ((0 - num + den - 1) \div den)

\* floor(num / den) for den # 0
floor_div(num, den) == IF den > 0 THEN floor_pos(num, den) ELSE floor_pos(0 - num, 0 - den)

RECURSIVE int_pow(_, _)
\* b ** e for e >= 0, and IntLimit + 1 for a result beyond the magnitude computed
int_pow(b, e) ==
    IF e = 0 THEN 1
    ELSE IF Abs(int_pow(b, e - 1)) > IntLimit THEN IntLimit + 1
    ELSE b * int_pow(b, e - 1)

\* a + b and a - b (sign = -1) of two numbers
add_numbers(a, b, sign) ==
    IF a.t = "int" /\ b.t = "int" THEN int_value(a.n + sign * b.n)
    ELSE float_value(Num(a) * Den(b) + sign * Num(b) * Den(a), Den(a) * Den(b),
                     Negative(a) /\ (Negative(b) <=> sign = 1))

\* a * b
mul_numbers(a, b) ==
    IF a.t = "int" /\ b.t = "int" THEN int_value(a.n * b.n)
    ELSE float_value(Num(a) * Num(b), Den(a) * Den(b), Negative(a) # Negative(b))

\* a / b
div_numbers(a, b) ==
    IF Num(b) = 0
    THEN ZeroDivisionError
    ELSE float_value(Num(a) * Den(b), Den(a) * Num(b), Negative(a) # Negative(b))

\* a // b
floordiv_numbers(a, b) ==
    IF Num(b) = 0
    THEN ZeroDivisionError
    ELSE IF a.t = "int" /\ b.t = "int" THEN int_value(floor_div(a.n, b.n))
    ELSE float_value(floor_div(Num(a) * Den(b), Den(a) * Num(b)), 1,
                     Negative(a) # Negative(b))

\* a ** e for an int exponent e >= 0
pow_nonneg(a, e) ==
    IF a.t = "int"
    THEN int_value(int_pow(a.n, e))
    ELSE IF Abs(int_pow(a.num, e)) > IntLimit \/ int_pow(a.den, e) > IntLimit THEN Inexact
    ELSE float_value(int_pow(a.num, e), int_pow(a.den, e), Negative(a) /\ e % 2 = 1)

\* a ** -e for e > 0: a float, 1 / a ** e
pow_negative(a, e) ==
    IF Num(a) = 0
    THEN ZeroDivisionError
    ELSE IF Abs(int_pow(Num(a), e)) > IntLimit \/ int_pow(Den(a), e) > IntLimit THEN Inexact
    ELSE float_value(int_pow(Den(a), e), int_pow(Num(a), e), FALSE)

\* a ** b; a float exponent is not computed
pow_numbers(a, b) ==
    IF b.t # "int" \/ Abs(b.n) > PowLimit THEN Inexact
    ELSE IF b.n >= 0 THEN pow_nonneg(a, b.n)
    ELSE pow_negative(a, 0 - b.n)

\* a binary operation on two numbers
number_op(op, a, b) ==
    CASE op = "+" -> add_numbers(a, b, 1)
      [] op = "-" -> add_numbers(a, b, 0 - 1)
      [] op = "*" -> mul_numbers(a, b)
      [] op = "/" -> div_numbers(a, b)
      [] op = "//" -> floordiv_numbers(a, b)
      [] op = "**" -> pow_numbers(a, b)

\* a binary operation: the left operand is evaluated first, then the right one
binary(op, a, b) ==
    IF a.t \in {"raised", "inexact"} THEN a
    ELSE IF b.t \in {"raised", "inexact"} THEN b
    ELSE IF IsNumber(a) /\ IsNumber(b) THEN number_op(op, a, b)
    ELSE Inexact

\* +a and -a
unary(op, a) ==
    IF a.t \in {"raised", "inexact"} THEN a
    ELSE IF ~IsNumber(a) THEN Inexact
    ELSE IF op = "+" THEN a
    ELSE IF a.t = "int" THEN PyInt(0 - a.n)
    ELSE PyFloat(0 - a.num, a.den, a.num = 0 /\ ~a.negzero)

\* 'int', 'float', 'tuple', 'ellipsis': type(v).__name__
type_name(v) ==
    CASE v.t = "int" -> <<"i","n","t">>
      [] v.t = "float" -> <<"f","l","o","a","t">>
      [] v.t = "tuple" -> <<"t","u","p","l","e">>
      [] v.t = "ellipsis" -> <<"e","l","l","i","p","s","i","s">>

\* the first of the values that is raised or inexact, None when there is none
first_failure(items) ==
    IF \E k \in DOMAIN items : items[k].t \in {"raised", "inexact"}
    THEN items[SetMin({k \in DOMAIN items : items[k].t \in {"raised", "inexact"}})]
    ELSE None

\* a tuple display: the elements are evaluated left to right
tuple_of(items) ==
    IF first_failure(items) # None THEN first_failure(items) ELSE PyTuple(items)

\* v(args): the callee and the arguments are evaluated, then the call fails
call(v, args) ==
    IF v.t \in {"raised", "inexact"} THEN v
    ELSE IF first_failure(args) # None THEN first_failure(args)
    ELSE Raised("TypeError", <<"'">> \o type_name(v) \o <<"'"," ","o","b","j","e","c","t"," ","i","s"," ","n","o","t"," ","c","a","l","l","a",
              "b","l","e">>)

\* str(n) of an int
str_signed(n) == IF n < 0 THEN <<"-">> \o str_int(0 - n) ELSE str_int(n)

RECURSIVE fraction_digits(_, _)
\* the decimal digits of r/den, 0 < r < den, den a power of two
fraction_digits(r, den) ==
    IF r = 0 THEN << >>
    ELSE <<DigitChars[((r * 10) \div den) + 1]>> \o fraction_digits((r * 10) % den, den)

\* the digits after the point: at least one
fraction_text(r, den) == IF r = 0 THEN <<"0">> ELSE fraction_digits(r, den)

\* repr of a float held exactly: the shortest decimal that reads back as the float
\* is its exact expansion
repr_float(v) ==
    (IF Negative(v) THEN <<"-">> ELSE << >>)
        \o str_int(Abs(v.num) \div v.den) \o <<".">>
        \o fraction_text(Abs(v.num) % v.den, v.den)

RECURSIVE repr_value(_)
RECURSIVE repr_items(_, _)
\* the reprs of the elements from k on, separated by ", "
repr_items(items, k) ==
    IF k > Len(items) THEN << >>
    ELSE IF k = Len(items) THEN repr_value(items[k])
    ELSE repr_value(items[k]) \o <<","," ">> \o repr_items(items, k + 1)

\* str(result) of a value
repr_value(v) ==
    CASE v.t = "int" -> str_signed(v.n)
      [] v.t = "float" -> repr_float(v)
      [] v.t = "ellipsis" -> <<"E","l","l","i","p","s","i","s">>
      [] v.t = "tuple" ->
            <<"(">> \o repr_items(v.items, 1)
                \o (IF Len(v.items) = 1 THEN <<",">> ELSE << >>) \o <<")">>

\* tokens: a number with its value, an operator or delimiter, PyEllipsis, and a
\* lexeme no expression holds
NumberToken(v) == [k |-> "number", v |-> v]

OpToken(op) == [k |-> "op", op |-> op]

EllipsisToken == [k |-> "ellipsis"]

BadToken == [k |-> "bad"]

RECURSIVE digits_end(_, _)
\* the end of the run of digits that starts at p: the index after it
digits_end(s, p) == IF IsDigit(CharAt(s, p)) THEN digits_end(s, p + 1) ELSE p

\* the end of the number that starts at p, k being the end of its leading digits
number_end_from(s, k) == IF CharAt(s, k) = "." THEN digits_end(s, k + 1) ELSE k

\* a number starts at p: a digit, or a point followed by a digit
number_starts(s, p) ==
    IsDigit(CharAt(s, p)) \/ (CharAt(s, p) = "." /\ IsDigit(CharAt(s, p + 1)))

\* the end of the lexeme that starts at p: the index after it
lexeme_end(s, p) ==
    IF number_starts(s, p) THEN number_end_from(s, digits_end(s, p))
    ELSE IF CharAt(s, p) = "." /\ CharAt(s, p + 1) = "." /\ CharAt(s, p + 2) = "."
    THEN p + 3
    ELSE IF CharAt(s, p) \in {"*", "/"} /\ CharAt(s, p + 1) = CharAt(s, p) THEN p + 2
    ELSE p + 1

\* the value of a digit
digit_value(c) == CHOOSE d \in 0..9 : DigitChars[d + 1] = c

RECURSIVE digits_value(_, _, _, _)
\* the value of the digits s[p..q-1] after the digits read into acc
digits_value(s, p, q, acc) ==
    IF p >= q THEN acc ELSE digits_value(s, p + 1, q, acc * 10 + digit_value(s[p]))

\* the longest digit string read as a number
MaxDigits == 5

\* a decimal integer literal s[p..q-1]: leading zeros only in a zero
int_token(s, p, q) ==
    IF q - p > MaxDigits THEN NumberToken(Inexact)
    ELSE IF q - p > 1 /\ s[p] = "0" /\ digits_value(s, p, q, 0) # 0 THEN BadToken
    ELSE NumberToken(int_value(digits_value(s, p, q, 0)))

\* a float literal: digits s[p..d-1], the point at d, digits s[d+1..q-1]
float_token(s, p, d, q) ==
    IF q - p - 1 > MaxDigits THEN NumberToken(Inexact)
    ELSE NumberToken(float_value(
             digits_value(s, p, d, 0) * int_pow(10, q - d - 1) + digits_value(s, d + 1, q, 0),
             int_pow(10, q - d - 1), FALSE))

\* the number s[p..q-1], d being the end of its leading digits
number_token(s, p, d, q) ==
    IF d = q THEN int_token(s, p, q) ELSE float_token(s, p, d, q)

\* the token of the lexeme s[p..q-1], which is not a space
token_of(s, p, q) ==
    IF number_starts(s, p) THEN number_token(s, p, digits_end(s, p), q)
    ELSE IF q = p + 3 THEN EllipsisToken
    ELSE IF q = p + 2 THEN OpToken(IF s[p] = "*" THEN "**" ELSE "//")
    ELSE IF s[p] \in {"+", "-", "*", "/", "(", ")", ","} THEN OpToken(s[p])
    ELSE BadToken

\* the tokens so far, with the lexeme s[p..q-1] unless it is a space
tokens_add(acc, s, p, q) ==
    IF s[p] = " " THEN acc ELSE Append(acc, token_of(s, p, q))

RECURSIVE tokenize(_, _, _)
\* the tokens of s from p on
tokenize(s, p, acc) ==
    IF p > Len(s) THEN acc
    ELSE tokenize(s, lexeme_end(s, p), tokens_add(acc, s, p, lexeme_end(s, p)))

\* the token at i, and an end marker after the last token
Tok(ts, i) == IF i \in 1..Len(ts) THEN ts[i] ELSE [k |-> "end"]

\* the token at i is one of the operators
IsOp(ts, i, ops) == Tok(ts, i).k = "op" /\ Tok(ts, i).op \in ops

\* a parsed expression: the index after it and its value
Parsed(pos, val) == [pos |-> pos, val |-> val]

\* no expression at this place; why is None for a syntax error and Inexact for a
\* starred element
NotParsed(why) == [pos |-> 0, val |-> why]

\* a parsed list of expressions: the index after it, the values, whether a comma
\* was seen
ParsedList(pos, items, comma) == [pos |-> pos, items |-> items, comma |-> comma, val |-> None]

NoList(why) == [pos |-> 0, items |-> << >>, comma |-> FALSE, val |-> why]

\* left op right, right parsed after the operator
combine(op, l, r) ==
    IF r.pos = 0 THEN r ELSE Parsed(r.pos, binary(op, l.val, r.val))

\* op operand
apply_unary(op, r) ==
    IF r.pos = 0 THEN r ELSE Parsed(r.pos, unary(op, r.val))

\* the value of a parenthesised list: the expression itself, or a tuple
list_value(lst) ==
    IF Len(lst.items) = 1 /\ ~lst.comma THEN lst.items[1] ELSE tuple_of(lst.items)

\* the closing parenthesis after the list of a parenthesised atom
paren_end(ts, lst) ==
    IF lst.pos = 0 THEN NotParsed(lst.val)
    ELSE IF IsOp(ts, lst.pos, {")"}) THEN Parsed(lst.pos + 1, list_value(lst))
    ELSE NotParsed(None)

\* the closing parenthesis after the arguments of a call of l
call_end(ts, l, args) ==
    IF args.pos = 0 THEN NotParsed(args.val)
    ELSE IF IsOp(ts, args.pos, {")"}) THEN Parsed(args.pos + 1, call(l.val, args.items))
    ELSE NotParsed(None)

RECURSIVE parse_list(_, _, _, _)
RECURSIVE list_next(_, _, _, _)
RECURSIVE parse_sum(_, _)
RECURSIVE sum_rest(_, _)
RECURSIVE parse_term(_, _)
RECURSIVE term_rest(_, _)
RECURSIVE parse_factor(_, _)
RECURSIVE parse_power(_, _)
RECURSIVE power_rest(_, _)
RECURSIVE parse_primary(_, _)
RECURSIVE trailers(_, _)
RECURSIVE parse_atom(_, _)

\* expressions separated by commas, up to a closing parenthesis or the end
parse_list(ts, i, acc, comma) ==
    IF Tok(ts, i).k = "end" \/ IsOp(ts, i, {")"}) THEN ParsedList(i, acc, comma)
    ELSE IF IsOp(ts, i, {"*", "**"}) THEN NoList(Inexact)
    ELSE list_next(ts, acc, comma, parse_sum(ts, i))

\* after the element e of a list
list_next(ts, acc, comma, e) ==
    IF e.pos = 0 THEN NoList(e.val)
    ELSE IF IsOp(ts, e.pos, {","}) THEN parse_list(ts, e.pos + 1, Append(acc, e.val), TRUE)
    ELSE ParsedList(e.pos, Append(acc, e.val), comma)

\* term (('+' | '-') term)*
parse_sum(ts, i) == sum_rest(ts, parse_term(ts, i))

sum_rest(ts, l) ==
    IF l.pos = 0 THEN l
    ELSE IF IsOp(ts, l.pos, {"+", "-"})
    THEN sum_rest(ts, combine(Tok(ts, l.pos).op, l, parse_term(ts, l.pos + 1)))
    ELSE l

\* factor (('*' | '/' | '//') factor)*
parse_term(ts, i) == term_rest(ts, parse_factor(ts, i))

term_rest(ts, l) ==
    IF l.pos = 0 THEN l
    ELSE IF IsOp(ts, l.pos, {"*", "/", "//"})
    THEN term_rest(ts, combine(Tok(ts, l.pos).op, l, parse_factor(ts, l.pos + 1)))
    ELSE l

\* ('+' | '-') factor | power
parse_factor(ts, i) ==
    IF IsOp(ts, i, {"+", "-"}) THEN apply_unary(Tok(ts, i).op, parse_factor(ts, i + 1))
    ELSE parse_power(ts, i)

\* primary ['**' factor]
parse_power(ts, i) == power_rest(ts, parse_primary(ts, i))

power_rest(ts, l) ==
    IF l.pos = 0 THEN l
    ELSE IF IsOp(ts, l.pos, {"**"}) THEN combine("**", l, parse_factor(ts, l.pos + 1))
    ELSE l

\* atom ('(' [arguments] ')')*
parse_primary(ts, i) == trailers(ts, parse_atom(ts, i))

trailers(ts, l) ==
    IF l.pos = 0 THEN l
    ELSE IF IsOp(ts, l.pos, {"("})
    THEN trailers(ts, call_end(ts, l, parse_list(ts, l.pos + 1, << >>, FALSE)))
    ELSE l

\* NUMBER | '...' | '(' [expressions] ')'
parse_atom(ts, i) ==
    IF Tok(ts, i).k = "number" THEN Parsed(i + 1, Tok(ts, i).v)
    ELSE IF Tok(ts, i).k = "ellipsis" THEN Parsed(i + 1, PyEllipsis)
    ELSE IF IsOp(ts, i, {"("}) THEN paren_end(ts, parse_list(ts, i + 1, << >>, FALSE))
    ELSE NotParsed(None)

\* SyntaxError; calculator makes no use of its message
SyntaxError == Raised("SyntaxError", << >>)

\* the whole input parsed as a list of expressions: its value, or SyntaxError
eval_list(ts, lst) ==
    IF lst.pos = 0 THEN (IF lst.val = Inexact THEN Inexact ELSE SyntaxError)
    ELSE IF lst.pos <= Len(ts) \/ Len(lst.items) = 0 THEN SyntaxError
    ELSE list_value(lst)

\* eval of a token sequence
eval_tokens(ts) == eval_list(ts, parse_list(ts, 1, << >>, FALSE))

\* eval(expression, {"__builtins__": {}}, {}): a value, Raised(...) or Inexact.
\* The characters that pass the allow-list form no name, so the namespaces are
\* never looked up.
eval(expression) == eval_tokens(tokenize(expression, 1, << >>))

\* the characters of allowed_chars
AllowedChars == Digits \cup {"+", "-", "*", "/", "(", ")", ".", ",", " "}

\* the test of the characters left out
all_unchecked(expression) == TRUE

\* all(c in allowed_chars for c in expression)
all_allowed(expression) == \A i \in DOMAIN expression : expression[i] \in AllowedChars

InvalidCharacters ==
    <<"E","r","r","o","r",":"," ","I","n","v","a","l","i","d"," ","c","h","a","r","a","c","t","e",
      "r","s"," ","i","n"," ","e","x","p","r","e","s","s","i","o","n","."," ","O","n","l","y"," ",
      "n","u","m","b","e","r","s"," ","a","n","d"," ","o","p","e","r","a","t","o","r","s"," ","(",
      "+",","," ","-",","," ","*",","," ","/",")"," ","a","r","e"," ","a","l","l","o","w","e","d",
      ".">>

\* the try block returns a text; evaluated tells whether eval was called, exact
\* whether its value is one computed here
Return(text, evaluated) ==
    [raised |-> FALSE, out |-> text, evaluated |-> evaluated, exact |-> TRUE,
     kind |-> "", msg |-> << >>, expression |-> << >>]

\* the try block raises, expression being the local variable at that time
Raise(kind, msg, evaluated, expression) ==
    [raised |-> TRUE, out |-> << >>, evaluated |-> evaluated, exact |-> TRUE,
     kind |-> kind, msg |-> msg, expression |-> expression]

NotExact ==
    [raised |-> FALSE, out |-> << >>, evaluated |-> TRUE, exact |-> FALSE,
     kind |-> "", msg |-> << >>, expression |-> << >>]

\* result = eval(...); return str(result)
try_eval(expression, result) ==
    IF result.t = "raised" THEN Raise(result.kind, result.msg, TRUE, expression)
    ELSE IF result.t = "inexact" THEN NotExact
    ELSE Return(repr_value(result), TRUE)

\* the try block after expression = expression.strip()
try_checked(expression) ==
    IF ~all_allowed(expression) THEN Return(InvalidCharacters, FALSE)
    ELSE try_eval(expression, eval(expression))

\* the try block: expression.strip() raises for an expression that is no str
try_calculator(expression) ==
    IF expression.t # "str"
    THEN Raise("AttributeError", NoAttribute(<<"s","t","r","i","p">>), FALSE, << >>)
    ELSE try_checked(strip(expression.v))

\* no except clauses: the exception leaves the function
calculator_unguarded(tried) == tried

\* the three except clauses
calculator_except(tried) ==
    IF ~tried.raised THEN tried
    ELSE IF tried.kind = "ZeroDivisionError"
    THEN Return(<<"E","r","r","o","r",":"," ","D","i","v","i","s","i","o","n"," ","b","y"," ","z","e",
              "r","o">>, tried.evaluated)
    ELSE IF tried.kind = "SyntaxError"
    THEN Return(<<"E","r","r","o","r",":"," ","I","n","v","a","l","i","d"," ","m","a","t","h","e","m",
              "a","t","i","c","a","l"," ","e","x","p","r","e","s","s","i","o","n",":"," ">> \o tried.expression,
                tried.evaluated)
    ELSE Return(<<"E","r","r","o","r",":"," ","C","o","u","l","d"," ","n","o","t"," ","e","v","a","l",
              "u","a","t","e"," ","e","x","p","r","e","s","s","i","o","n",":"," ">> \o tried.msg, tried.evaluated)

calculator(expression) == calculator_except(try_calculator(expression))

MaxOperand == 2

\* operands of the expressions: the small ones and those of the examples
Operands == (0..MaxOperand) \cup {7, 15}

Literals == {str_int(n) : n \in Operands}

\* a op b, with and without spaces around the operator
BinaryExpressions ==
    {a \o op \o b : a \in Literals, b \in Literals,
                    op \in {<<" ","+"," ">>, <<"-">>, <<"*">>, <<" ","/"," ">>, <<"/","/">>, <<"*","*">>}}

\* (a+b)/c and a-b*c
NestedExpressions ==
    {<<"(">> \o a \o <<"+">> \o b \o <<")","/">> \o c : a \in Literals, b \in Literals, c \in Literals}
        \cup {a \o <<"*","-">> \o b \o <<"-">> \o c : a \in Literals, b \in Literals, c \in Literals}

\* signs, float literals, tuples, a call, Ellipsis
OtherExpressions ==
    UNION {{a, <<"-">> \o a, <<"-"," ","+">> \o a, a \o <<".","5">>, a \o <<".">>, a \o <<".","2","5","*","2">>,
            a \o <<","," ","7">>, <<"(">> \o a \o <<",",")">>, a \o <<",">>, <<"(","(">> \o a \o <<")",")">>,
            a \o <<"/","-","2">>, a \o <<"(","7",")">>, <<"0">> \o a, a \o <<".","5","/","/","-","1">>}
           : a \in Literals}
        \cup {<<"(",")">>, <<".",".",".">>, <<".","5">>, <<"1","0","0"," ","/"," ","4">>, <<"2"," ","*","*"," ","-","1">>, <<"0"," ","*","*"," ","-","1">>}

\* texts that are no expression
MalformedExpressions ==
    UNION {{a \o <<" ","+">>, a \o <<" ","7">>, <<"(">> \o a, a \o <<")">>, a \o <<".",".">>,
            a \o <<" ","/"," ","/"," ","2">>, <<"(",",",")">>, <<"*">> \o a \o <<"*">>}
           : a \in Literals}
        \cup {<<>>, <<".">>, <<",">>, <<" ">>}

\* one character outside the allow-list put into a text after position k, or at its end
Inserted(text, k, c) ==
    IF k >= Len(text) THEN text \o <<c>>
    ELSE SubSeq(text, 1, k) \o <<c>> \o SubSeq(text, k + 1, Len(text))

DisallowedChars == {";", "x", "_", "%"}

\* texts with a character outside the allow-list
DisallowedExpressions ==
    {Inserted(text, k, c) :
        text \in {a \o <<" ","+"," ">> \o b : a \in Literals, b \in {<<"7">>, <<"0">>}} \cup {<<"1","/","0">>, <<>>},
        k \in 0..4, c \in DisallowedChars}
        \cup {<<"1",";"," ","i","m","p","o","r","t"," ","o","s">>, <<"_","_","i","m","p","o","r","t","_","_","(","'","o","s","'",")">>, <<"2"," ","+"," ","t","w","o">>, <<"1","\t","+"," ","2">>, <<"1","\n","2">>}

\* leading and trailing whitespace, which strip removes
Padded(texts) == {<<" ">> \o text \o <<"\n">> : text \in texts} \cup {<<"\t">> \o text : text \in texts}

CandidateExpressions ==
    BinaryExpressions \cup NestedExpressions \cup OtherExpressions
        \cup MalformedExpressions \cup DisallowedExpressions
        \cup Padded(OtherExpressions \cup DisallowedExpressions)

\* the inputs: the candidates whose value is computed exactly, and a value that is
\* no str
Expressions ==
    {PyStr(text) : text \in {t \in CandidateExpressions : calculator(PyStr(t)).exact}}
        \cup {None}

InitCalculator ==
    /\ c_pc = "start"
    /\ c_expression \in Expressions
    /\ c_result = None
    /\ c_evaluated = FALSE
    /\ c_raised = FALSE
    /\ IdleRouter
    /\ IdleAgent
    /\ IdleDetect
    /\ IdleExport
    /\ IdleSearch
    /\ IdleTools
    /\ IdleApp

\* calculator(expression)
Calculator ==
    /\ c_pc = "start"
    /\ \E out \in {calculator(c_expression)} :
          /\ c_raised' = out.raised
          /\ c_result' = IF out.raised THEN None ELSE PyStr(out.out)
          /\ c_evaluated' = out.evaluated
    /\ c_pc' = "done"
    /\ UNCHANGED c_expression
    /\ UNCHANGED <<rvars, avars, dvars, xvars, svars, tvars, hvars>>

NextCalculator == Calculator

SpecCalculator == InitCalculator /\ [][NextCalculator]_vars

(***************************************************************************)
(* Document search: search_documents (src/agents/tools.py) over            *)
(* VectorStoreManager.similarity_search (src/retrieval/vector_store.py).   *)
(***************************************************************************)

\* a Document: metadata['source'] (None when the key is missing), page_content
Document(source, page_content) == [source |-> source, page_content |-> page_content]

\* the parameters of VectorStoreManager.similarity_search(self, query, k=None)
SimilaritySearchParameters == {"self", "query", "k"}

\* the keywords search_documents passes: k=4, filter=...
SearchCallKeywords == {"k", "filter"}

\* k=4 in the call of search_documents
SearchK == 4

TypeErrorUnexpectedFilter ==
    Raised("TypeError",
        <<"V","e","c","t","o","r","S","t","o","r","e","M","a","n","a","g","e","r",".","s","i","m",
          "i","l","a","r","i","t","y","_","s","e","a","r","c","h","(",")"," ","g","o","t"," ","a",
          "n"," ","u","n","e","x","p","e","c","t","e","d"," ","k","e","y","w","o","r","d"," ","a",
          "r","g","u","m","e","n","t"," ","'","f","i","l","t","e","r","'">>)

ValueErrorNotLoaded ==
    Raised("ValueError", <<"V","e","c","t","o","r"," ","s","t","o","r","e"," ","n","o","t"," ","l","o","a","d",
              "e","d","."," ","C","a","l","l"," ","l","o","a","d","_","v","e","c","t","o","r","_",
              "s","t","o","r","e","(",")"," ","f","i","r","s","t",".">>)

\* first k elements of a ranked list
first_k(docs, k) == IF Len(docs) <= k THEN docs ELSE SubSeq(docs, 1, k)

\* the body of VectorStoreManager.similarity_search: a store that is not
\* loaded raises ValueError, an exception of the store is raised again
manager_search(store, k) ==
    IF store.kind = "unloaded" THEN ValueErrorNotLoaded
    ELSE IF store.kind = "raise" THEN Raised("Exception", store.msg)
    ELSE [t |-> "list", searched |-> TRUE, docs |-> first_k(store.docs, k)]

\* vector_store_manager.similarity_search(query, k=4, filter=...): the call binds
\* its keywords to the parameters of the method first; a keyword the method does
\* not declare is a TypeError and the body does not run
similarity_search(keywords, store, k) ==
    IF keywords \subseteq SimilaritySearchParameters
    THEN manager_search(store, k)
    ELSE TypeErrorUnexpectedFilter

\* doc.metadata.get('source', 'unknown')
source_of(doc) == IF doc.source = None THEN <<"u","n","k","n","o","w","n">> ELSE doc.source.v

\* f"[From {source}]\n{doc.page_content}"
passage(doc) == <<"[","F","r","o","m"," ">> \o source_of(doc) \o <<"]","\n">> \o doc.page_content

\* "\n\n".join of the passages
combined(docs) == join([i \in 1..Len(docs) |-> passage(docs[i])], <<"\n","\n">>)

NoRelevantInformation == <<"N","o"," ","r","e","l","e","v","a","n","t"," ","i","n","f","o","r","m","a","t","i",
              "o","n"," ","f","o","u","n","d"," ","i","n"," ","d","o","c","u","m","e","n","t","s",
              ".">>

\* the try block of search_documents
try_search(query, document_type, store) ==
    LET results == similarity_search(SearchCallKeywords, store, SearchK)
    IN  IF results.t = "raised"
        THEN [raised |-> TRUE, searched |-> store.kind = "raise"
                                   /\ SearchCallKeywords \subseteq SimilaritySearchParameters,
              msg |-> results.msg]
        ELSE IF Len(results.docs) = 0
        THEN [raised |-> FALSE, searched |-> TRUE, out |-> NoRelevantInformation]
        ELSE [raised |-> FALSE, searched |-> TRUE, out |-> combined(results.docs)]

\* except Exception as e: return f"Error searching documents: {str(e)}"
search_except(tried) ==
    IF ~tried.raised THEN tried
    ELSE [raised |-> FALSE, searched |-> tried.searched,
          out |-> <<"E","r","r","o","r"," ","s","e","a","r","c","h","i","n","g"," ","d","o","c","u","m",
              "e","n","t","s",":"," ">> \o tried.msg]

search_documents(query, document_type, store) ==
    search_except(try_search(query, document_type, store))

\* at most this many documents in the store's ranking
MaxDocs == 2

Documents ==
    { Document(PyStr(<<"a",".","p","d","f">>), <<"M","o","n"," ","9",":","0","0"," ","M","a","t","h">>),
      Document(PyStr(<<"b",".","p","d","f">>), <<"O","1","A",":"," ","1","5">>),
      Document(None, <<"n","o","t","e","s">>) }

RECURSIVE Rankings(_)
Rankings(n) ==
    IF n = 0 THEN {<< >>}
    ELSE Rankings(n - 1) \cup {Append(r, d) : r \in {q \in Rankings(n - 1) : Len(q) = n - 1},
                                             d \in Documents}

\* what the vector store does when it is searched
Stores ==
    {[kind |-> "docs", docs |-> r] : r \in Rankings(MaxDocs)}
      \cup {[kind |-> "raise", msg |-> <<"c","o","n","n","e","c","t","i","o","n"," ","r","e","f","u","s","e","d">>], [kind |-> "unloaded"]}

SearchQueries == {PyStr(<<"O","1","A"," ","s","c","h","e","d","u","l","e">>), PyStr(<<>>)}

DocumentTypes == {None, PyStr(<<>>), PyStr(<<"t","i","m","e","t","a","b","l","e">>)}

InitSearch ==
    /\ s_pc = "start"
    /\ s_query \in SearchQueries
    /\ s_document_type \in DocumentTypes
    /\ s_store \in Stores
    /\ s_searched = FALSE
    /\ s_result = None
    /\ s_raised = FALSE
    /\ IdleRouter
    /\ IdleAgent
    /\ IdleDetect
    /\ IdleCalculator
    /\ IdleExport
    /\ IdleTools
    /\ IdleApp

\* search_documents(query, document_type)
SearchDocuments ==
    /\ s_pc = "start"
    /\ \E out \in {search_documents(s_query, s_document_type, s_store)} :
          /\ s_raised' = out.raised
          /\ s_result' = IF out.raised THEN None ELSE PyStr(out.out)
          /\ s_searched' = out.searched
    /\ s_pc' = "done"
    /\ UNCHANGED <<s_query, s_document_type, s_store>>
    /\ UNCHANGED <<rvars, avars, dvars, cvars, xvars, tvars, hvars>>

NextSearch == SearchDocuments

SpecSearch == InitSearch /\ [][NextSearch]_vars

(***************************************************************************)
(* CSV exporter: export_to_csv (src/agents/tools.py).  A file is written   *)
(* through Python's buffered text layer: open(path, 'w') creates or        *)
(* truncates the file, write() and csv.writer.writerow() fill the buffer   *)
(* of the invocation, and leaving the with block writes the buffer at the  *)
(* invocation's own file position, which starts at 0.  The data of the     *)
(* model is far below the buffer size, so nothing is written earlier.      *)
(***************************************************************************)

\* [a-zA-Z0-9_-]
FilenameChars == UpperSet \cup LowerSet \cup Digits \cup {"_", "-"}

\* the characters are used as they are
unsanitized(filename) == filename

\* re.sub(r'[^a-zA-Z0-9_-]', '_', filename)
sanitize(filename) ==
    [i \in 1..Len(filename) |-> IF filename[i] \in FilenameChars THEN filename[i] ELSE "_"]

\* Path("data/exports")
export_dir == [absolute |-> FALSE, parts |-> <<<<"d","a","t","a">>, <<"e","x","p","o","r","t","s">>>>]

RECURSIVE path_parts(_)
\* the components pathlib keeps of the segments of a path text: empty segments
\* and '.' are dropped, '..' stays
path_parts(segments) ==
    IF Len(segments) = 0 THEN << >>
    ELSE IF Head(segments) \in {<< >>, <<".">>} THEN path_parts(Tail(segments))
    ELSE <<Head(segments)>> \o path_parts(Tail(segments))

\* dir / name : an absolute name replaces dir
path_join(dir, name) ==
    IF startswith(name, <<"/">>)
    THEN [absolute |-> TRUE, parts |-> path_parts(split(name, "/"))]
    ELSE [absolute |-> dir.absolute, parts |-> dir.parts \o path_parts(split(name, "/"))]

\* str(path)
path_str(path) == (IF path.absolute THEN <<"/">> ELSE << >>) \o join(path.parts, <<"/">>)

\* filepath = export_dir / f"{filename}.csv"
filepath_of(filename) == path_join(export_dir, sanitize(filename) \o <<".","c","s","v">>)

RECURSIVE stripped_lines(_, _)
\* [line.strip() for line in parts if line.strip()], parts from index k
stripped_lines(parts, k) ==
    IF k > Len(parts) THEN << >>
    ELSE IF Len(strip(parts[k])) = 0 THEN stripped_lines(parts, k + 1)
    ELSE <<strip(parts[k])>> \o stripped_lines(parts, k + 1)

\* lines = [line.strip() for line in data.split('\n') if line.strip()]
lines_of(data) == stripped_lines(split(data, "\n"), 1)

\* the characters that make csv.writer quote a field: delimiter, quotechar and
\* the characters of the line terminator
CsvSpecial == {",", "\"", "\r", "\n"}

RECURSIVE csv_doubled(_, _)
\* the field with every quote doubled, from index k
csv_doubled(field, k) ==
    IF k > Len(field) THEN << >>
    ELSE (IF field[k] = "\"" THEN <<"\"", "\"">> ELSE <<field[k]>>) \o csv_doubled(field, k + 1)

\* one field as csv.writer writes it (excel dialect, QUOTE_MINIMAL)
csv_field(field) ==
    IF \E i \in 1..Len(field) : field[i] \in CsvSpecial
    THEN <<"\"">> \o csv_doubled(field, 1) \o <<"\"">>
    ELSE field

\* writer.writerow([a, b])
writerow(a, b) == csv_field(a) \o <<",">> \o csv_field(b) \o <<"\r", "\n">>

\* the row of a line after a split at its first sep
row_split(parts) == writerow(strip(parts[1]), strip(parts[2]))

\* the row of a line when '-' is tried before ':'
row_dash_first(line) ==
    IF find_char(line, "-") > 0 THEN row_split(split_once(line, "-"))
    ELSE IF find_char(line, ":") > 0 THEN row_split(split_once(line, ":"))
    ELSE writerow(line, << >>)

\* the row written for one line of the list: split at the first ':', else at the
\* first '-', else the line with an empty value
row_of(line) ==
    IF find_char(line, ":") > 0 THEN row_split(split_once(line, ":"))
    ELSE IF find_char(line, "-") > 0 THEN row_split(split_once(line, "-"))
    ELSE writerow(line, << >>)

\* writer.writerow(['Item', 'Value'])
header_row == writerow(<<"I","t","e","m">>, <<"V","a","l","u","e">>)

\* ',' in lines[0]
looks_like_csv(lines) == find_char(lines[1], ",") > 0

\* a directory in the place of a file
DirEntry == [t |-> "dir"]

\* the invocation has not opened a file and has no result yet
Invocation(data, filename) ==
    [pc |-> "start", data |-> data, filename |-> filename, filepath |-> None, lines |-> << >>,
     verbatim |-> FALSE, k |-> 0, buffer |-> << >>, result |-> None, raised |-> FALSE]

\* return text
export_return(inv, filepath, text) ==
    [inv EXCEPT !.pc = "done", !.filepath = filepath, !.result = PyStr(text)]

\* an exception leaves the try block
export_raise(inv, filepath, msg) ==
    [inv EXCEPT !.pc = "except", !.filepath = filepath, !.result = PyStr(msg)]

\* the list is never taken for empty
never_empty(lines) == FALSE

\* not lines
no_lines(lines) == Len(lines) = 0

\* the statements from 'if not lines' to the choice of the branch; lines[0] of
\* an empty list is an IndexError
export_checked(inv, filepath, lines) ==
    IF no_lines(lines) THEN export_return(inv, filepath, <<"E","r","r","o","r",":"," ","N","o"," ","d","a","t","a"," ","t","o"," ","e","x","p",
              "o","r","t">>)
    ELSE IF Len(lines) = 0 THEN export_raise(inv, filepath, <<"l","i","s","t"," ","i","n","d","e","x"," ","o","u","t"," ","o","f"," ","r","a","n",
              "g","e">>)
    ELSE [inv EXCEPT !.pc = "open", !.filepath = filepath, !.lines = lines,
                     !.verbatim = looks_like_csv(lines)]

\* the try block up to the open: the directory is made, the name cleaned, the
\* data split; data.split raises for data that is no str
export_prepare(inv, filepath) ==
    IF inv.data.t # "str"
    THEN export_raise(inv, filepath, NoAttribute(<<"s","p","l","i","t">>))
    ELSE export_checked(inv, filepath, lines_of(inv.data.v))

\* except Exception as e: return f"Error exporting to CSV: {str(e)}"
export_except(inv) ==
    IF inv.pc = "except"
    THEN [inv EXCEPT !.pc = "done", !.result = PyStr(<<"E","r","r","o","r"," ","e","x","p","o","r","t","i","n","g"," ","t","o"," ","C","S",
              "V",":"," ">> \o inv.result.v)]
    ELSE inv

\* open(filepath, 'w') on a directory
IsADirectory(filepath) ==
    <<"[","E","r","r","n","o"," ","2","1","]"," ","I","s"," ","a"," ","d","i","r","e","c","t","o",
      "r","y",":"," ","'">> \o path_str(filepath) \o <<"'">>

\* the content of a file after a buffer is written at position 0 of it
written_at_start(content, buffer) ==
    IF Len(content) <= Len(buffer) THEN buffer
    ELSE buffer \o SubSeq(content, Len(buffer) + 1, Len(content))

\* the files after the invocation's buffer has reached its file
flushed(files, inv) ==
    [files EXCEPT ![inv.filepath] = PyStr(written_at_start(files[inv.filepath].v, inv.buffer))]

\* the next write of the with block: the whole data, or the header and then one
\* row per line
export_write(inv) ==
    IF inv.verbatim THEN [inv EXCEPT !.pc = "close", !.buffer = inv.data.v]
    ELSE IF inv.k = 0 THEN [inv EXCEPT !.k = 1, !.buffer = header_row]
    ELSE [inv EXCEPT !.k = inv.k + 1, !.buffer = inv.buffer \o row_of(inv.lines[inv.k]),
                     !.pc = IF inv.k = Len(inv.lines) THEN "close" ELSE "write"]

ExportSucceeded(filepath) == <<"C","S","V"," ","e","x","p","o","r","t","e","d"," ","s","u","c","c","e","s","s","f",
              "u","l","l","y"," ","t","o",":"," ">> \o path_str(filepath)

\* invocations that can run at the same time
ExportProcs == 1..2

ExportData ==
    { None, PyStr(<<>>), PyStr(<<" ","\n","\t">>),
      PyStr(<<"a",",","b","\n","1",",","2","\n">>), PyStr(<<"\n"," ","x",",","y"," ","\n","z">>), PyStr(<<"n","-","1",",","5">>),
      PyStr(<<"a",":"," ","1","\n","b"," ","-"," ","2","\n","c">>), PyStr(<<"k",":"," ","v",",","w">>), PyStr(<<"a","-","b",":"," ","c">>),
      PyStr(<<"q",":"," ","\"","z","\"">>), PyStr(<<"x","\n","\n"," ","y",":"," ">>), PyStr(<<"t",":"," ","9",":","0","0"," ","-"," ","1","0">>) }

ExportFilenames == {<<"a","_","b">>, <<"a","/","b">>, <<".",".","/","x">>, <<"/","x">>, <<"a",".","b","-","Z","9">>, <<>>}

\* the second invocation exports to the artifact a_b
ConcurrentData == {PyStr(<<"p",",","q">>), PyStr(<<"l",":"," ","1","\n","m",":"," ","2">>)}

ConcurrentFilenames == {<<"a",".","b">>}

ExportPaths == {filepath_of(f) : f \in ExportFilenames \cup ConcurrentFilenames}

OldContent == PyStr(<<"o","l","d",",","c","o","n","t","e","n","t","\n","o","f",",","t","h","e",",","a",
              "r","t","i","f","a","c","t","\n">>)

\* the export directory at the start: empty, or with a file or a directory in
\* the place of the artifact a_b
InitialFiles ==
    {[path \in ExportPaths |-> IF path = filepath_of(<<"a","_","b">>) THEN entry ELSE None] :
        entry \in {None, OldContent, DirEntry}}

InitExport ==
    /\ x_proc \in [ExportProcs ->
                     {Invocation(d, f) : d \in ExportData \cup ConcurrentData,
                                         f \in ExportFilenames \cup ConcurrentFilenames}]
    /\ x_proc[1].data \in ExportData /\ x_proc[1].filename \in ExportFilenames
    /\ x_proc[2].data \in ConcurrentData /\ x_proc[2].filename \in ConcurrentFilenames
    /\ x_files \in InitialFiles
    /\ IdleRouter
    /\ IdleAgent
    /\ IdleDetect
    /\ IdleCalculator
    /\ IdleSearch
    /\ IdleTools
    /\ IdleApp

\* export_to_csv from its entry to the statement before the open
ExportEnter(p) ==
    /\ x_proc[p].pc = "start"
    /\ x_proc' = [x_proc EXCEPT
                    ![p] = export_except(export_prepare(x_proc[p], filepath_of(x_proc[p].filename)))]
    /\ UNCHANGED x_files

\* open(filepath, 'w', newline='', encoding='utf-8'): the file is created or
\* truncated; a directory of that name is an OSError
ExportOpen(p) ==
    /\ x_proc[p].pc = "open"
    /\ IF x_files[x_proc[p].filepath] = DirEntry
       THEN /\ x_proc' = [x_proc EXCEPT
                    ![p] = export_except(export_raise(x_proc[p], x_proc[p].filepath,
                                                      IsADirectory(x_proc[p].filepath)))]
            /\ UNCHANGED x_files
       ELSE /\ x_proc' = [x_proc EXCEPT ![p].pc = "write"]
            /\ x_files' = [x_files EXCEPT ![x_proc[p].filepath] = PyStr(<< >>)]

\* f.write(data), writer.writerow(...): into the buffer
ExportWrite(p) ==
    /\ x_proc[p].pc = "write"
    /\ x_proc' = [x_proc EXCEPT ![p] = export_write(x_proc[p])]
    /\ UNCHANGED x_files

\* the end of the with block and the return
ExportClose(p) ==
    /\ x_proc[p].pc = "close"
    /\ x_files' = flushed(x_files, x_proc[p])
    /\ x_proc' = [x_proc EXCEPT
                    ![p] = export_return(x_proc[p], x_proc[p].filepath,
                                         ExportSucceeded(x_proc[p].filepath))]

\* the invocation is cancelled while its file is open: an interrupt unwinds the
\* with block, which writes the buffer out; a killed process writes nothing
ExportCancel(p) ==
    /\ x_proc[p].pc \in {"write", "close"}
    /\ \E unwound \in BOOLEAN :
          x_files' = IF unwound THEN flushed(x_files, x_proc[p]) ELSE x_files
    /\ x_proc' = [x_proc EXCEPT ![p].pc = "cancelled"]

\* the actions of the invocations; the other components are at rest
EnterExport ==
    /\ \E p \in ExportProcs : ExportEnter(p)
    /\ UNCHANGED <<rvars, avars, dvars, cvars, svars, tvars, hvars>>

OpenExport ==
    /\ \E p \in ExportProcs : ExportOpen(p)
    /\ UNCHANGED <<rvars, avars, dvars, cvars, svars, tvars, hvars>>

WriteExport ==
    /\ \E p \in ExportProcs : ExportWrite(p)
    /\ UNCHANGED <<rvars, avars, dvars, cvars, svars, tvars, hvars>>

CloseExport ==
    /\ \E p \in ExportProcs : ExportClose(p)
    /\ UNCHANGED <<rvars, avars, dvars, cvars, svars, tvars, hvars>>

CancelExport ==
    /\ \E p \in ExportProcs : ExportCancel(p)
    /\ UNCHANGED <<rvars, avars, dvars, cvars, svars, tvars, hvars>>

NextExport ==
    \/ EnterExport
    \/ OpenExport
    \/ WriteExport
    \/ CloseExport
    \/ CancelExport

SpecExport == InitExport /\ [][NextExport]_vars

-----------------------------------------------------------------------------
(* app/chainlit_app.py: the chat handlers and the module's globals *)

\* handler calls in a behaviour are at most this many
MaxHandlerCalls == 4

\* the Chroma persist directory: missing, present without a collection of documents,
\* present with one
PersistDirStates == {"absent", "empty", "store"}

\* the objects the handlers make, named by the handler call that made them
Manager(n, loaded) == [t |-> "manager", made_in |-> n, vector_store |-> loaded]

Chain(n, manager) == [t |-> "qa_chain", made_in |-> n, manager |-> manager.made_in]

Agent(n, manager) == [t |-> "agent", made_in |-> n, manager |-> manager.made_in]

Router(n) == [t |-> "router", made_in |-> n]

\* the module's globals
Globals(manager, chain, router, agent) ==
    [vector_store_manager |-> manager, qa_chain |-> chain, query_router |-> router,
     agent |-> agent]

\* what a handler call leaves: the globals, the directory, what it told the user,
\* the components it invoked, the agent it bound to a local name, and whether an
\* exception left the handler
Outcome(globals, dir, said, invoked, made, raised) ==
    [globals |-> globals, dir |-> dir, said |-> said, invoked |-> invoked,
     made |-> made, raised |-> raised]

\* VectorStoreManager.__init__: Path(persist_directory).mkdir(parents=True, exist_ok=True)
mkdir(dir) == IF dir = "absent" THEN "empty" ELSE dir

\* VectorStoreManager.load_vector_store on the directory; chroma is what the Chroma
\* constructor does
load_vector_store(dir, chroma) ==
    IF dir = "absent" THEN "FileNotFoundError"
    ELSE IF chroma = "raise" THEN "Exception"
    ELSE "loaded"

\* the try statement of start, loaded being the result of load_vector_store; the
\* manager is bound before the load
start_try(g, n, dir, loaded) ==
    IF loaded = "loaded"
    THEN Outcome(Globals(Manager(n, TRUE), Chain(n, Manager(n, TRUE)), g.query_router,
                         Agent(n, Manager(n, TRUE))),
                 dir, "Loaded existing document collection.", {}, None, FALSE)
    ELSE IF loaded = "FileNotFoundError"
    THEN Outcome(Globals(Manager(n, FALSE), g.qa_chain, g.query_router, g.agent),
                 dir, "No documents loaded yet.", {}, None, FALSE)
    ELSE Outcome(Globals(Manager(n, FALSE), g.qa_chain, g.query_router, g.agent),
                 dir, "Welcome", {}, None, TRUE)

\* start(): the router is made, the welcome is sent, the store is loaded
start(g, n, dir, chroma) ==
    start_try(Globals(g.vector_store_manager, g.qa_chain, Router(n), g.agent), n,
              mkdir(dir), load_vector_store(mkdir(dir), chroma))

\* the branch of main for a question once the QA chain is set; query_type is the
\* type of the route, answer what qa_chain.astream does
main_route(g, dir, query_type, answer) ==
    IF g.query_router # None /\ query_type = "complex" /\ g.agent # None
    THEN Outcome(g, dir, "agent output", {"router", "agent"}, None, FALSE)
    ELSE IF answer = "raise"
    THEN Outcome(g, dir, "Error:",
                 {"qa_chain"} \cup (IF g.query_router # None THEN {"router"} ELSE {}),
                 None, FALSE)
    ELSE Outcome(g, dir, "answer",
                 {"qa_chain"} \cup (IF g.query_router # None THEN {"router"} ELSE {}),
                 None, FALSE)

\* main() for a message without attachments
main(g, dir, query_type, answer) ==
    IF g.qa_chain = None
    THEN Outcome(g, dir, "Please upload a document first!", {}, None, FALSE)
    ELSE main_route(g, dir, query_type, answer)

\* the manager handle_file_upload works on
upload_manager(g, n) ==
    IF g.vector_store_manager = None THEN Manager(n, FALSE) ELSE g.vector_store_manager

\* handle_file_upload from 'Create or update vector store' on; m is the manager and
\* store what create_vector_store or add_documents does.  The agent is bound to a
\* name that is not declared global
upload_store(g, n, dir, m, store) ==
    IF store = "raise"
    THEN Outcome(Globals(m, g.qa_chain, g.query_router, g.agent), dir,
                 "Error processing files:", {}, None, FALSE)
    ELSE Outcome(Globals(Manager(m.made_in, TRUE), Chain(n, m), g.query_router, g.agent),
                 "store", "Successfully processed", {}, Agent(n, m), FALSE)

\* handle_file_upload(files); files is what reading, loading and splitting the
\* files does
handle_file_upload(g, n, dir, files, store) ==
    IF files = "raise"
    THEN Outcome(g, dir, "Error processing files:", {}, None, FALSE)
    ELSE upload_store(g, n,
                      IF g.vector_store_manager = None THEN mkdir(dir) ELSE dir,
                      upload_manager(g, n), store)

\* the globals as a record
globals == Globals(h_vector_store_manager, h_qa_chain, h_query_router, h_agent)

InitApp ==
    /\ h_dir \in PersistDirStates
    /\ h_vector_store_manager = None
    /\ h_qa_chain = None
    /\ h_query_router = None
    /\ h_agent = None
    /\ h_made = None
    /\ h_last = None
    /\ h_calls = 0
    /\ h_session = None
    /\ IdleRouter
    /\ IdleAgent
    /\ IdleDetect
    /\ IdleCalculator
    /\ IdleExport
    /\ IdleSearch
    /\ IdleTools

\* the handler call ends: the globals, the directory and the record of the call
AppReturns(handler, query_type, out) ==
    /\ h_vector_store_manager' = out.globals.vector_store_manager
    /\ h_qa_chain' = out.globals.qa_chain
    /\ h_query_router' = out.globals.query_router
    /\ h_agent' = out.globals.agent
    /\ h_dir' = out.dir
    /\ h_made' = out.made
    /\ h_last' = [handler |-> handler, query_type |-> query_type, said |-> out.said,
                  invoked |-> out.invoked, raised |-> out.raised]
    /\ h_calls' = h_calls + 1
    /\ UNCHANGED <<rvars, avars, dvars, cvars, xvars, svars, tvars>>

\* @cl.on_chat_start
Start ==
    /\ h_calls < MaxHandlerCalls
    /\ \E chroma \in {"ok", "raise"} :
          \E out \in {start(globals, h_calls + 1, h_dir, chroma)} :
              AppReturns("start", "", out)
    /\ h_session' = [dir |-> h_dir, uploads |-> 0]

\* @cl.on_message, a message without attachments
Question ==
    /\ h_calls < MaxHandlerCalls
    /\ h_session # None
    /\ \E query_type \in QueryType, answer \in {"ok", "raise"} :
          \E out \in {main(globals, h_dir, query_type, answer)} :
              AppReturns("main", IF "router" \in out.invoked THEN query_type ELSE "", out)
    /\ UNCHANGED h_session

\* @cl.on_message, a message with attachments
Upload ==
    /\ h_calls < MaxHandlerCalls
    /\ h_session # None
    /\ \E files \in {"ok", "raise"}, store \in {"ok", "raise"} :
          \E out \in {handle_file_upload(globals, h_calls + 1, h_dir, files, store)} :
              AppReturns("handle_file_upload", "", out)
    /\ h_session' = [h_session EXCEPT !.uploads = @ + 1]

NextApp ==
    \/ Start
    \/ Question
    \/ Upload

SpecApp == InitApp /\ [][NextApp]_vars

-----------------------------------------------------------------------------
(* claims about the router *)

\* C1: when the Generator call raises during route_query, the decision returned is
\* the keyword heuristic's: a query with an aggregation cue is routed Aggregation,
\* and a query with a tool-use cue and no aggregation or breadth cue is routed
\* Complex.
C1_GeneratorFailureUsesHeuristic ==
    (r_pc = "done" /\ r_gen.kind = "raise") =>
        LET q == lower(r_query)
        IN  /\ ~r_raised
            /\ r_route # None
            /\ any_keyword(q, AggregationKeywords) => r_route.query_type = "aggregation"
            /\ (/\ any_keyword(q, ComplexKeywords)
                /\ ~any_keyword(q, AggregationKeywords)
                /\ ~any_keyword(q, CrossDocumentKeywords)) => r_route.query_type = "complex"

\* C2: for every query and every Generator behaviour (well-formed reply, malformed
\* or empty reply, exception) route_query raises nothing and returns a decision
\* whose query_type is one of the four QueryType values; when the Generator raises
\* the decision is Simple with the generic fallback reasoning and no filter.
C2_RouteQueryTotal ==
    r_pc = "done" =>
        /\ ~r_raised
        /\ r_route # None
        /\ r_route.query_type \in QueryType
        /\ r_gen.kind = "raise" =>
               r_route = [query_type |-> "simple", reasoning |-> T_fallback,
                          metadata_filter |-> None]

\* a reply whose Filter is a JSON array: QueryRoute rejects it, the parser falls back
C2_Witness ==
    /\ r_pc = "done"
    /\ r_gen.kind = "reply"
    /\ contains(r_gen.text, <<"[">>)
    /\ r_query = <<"e","x","p","o","r","t">>
    /\ r_route.query_type = "complex"
    /\ ~r_raised

-----------------------------------------------------------------------------
(* Claims about the agent wrapper *)

\* the tool calls a run has executed: the tool observations among its messages
tool_calls(messages) ==
    Cardinality({i \in DOMAIN messages : messages[i].role = "tool"})

\* the tool calls the Generator has requested in a run
tool_requests(messages) ==
    Cardinality({i \in DOMAIN messages : messages[i].role = "ai" /\ messages[i].tool # ""})

\* C3: with the agent configured with max_iterations = N, a run executes at most N
\* tool calls, however often the Generator asks for one.
C3_AtMostMaxIterationsToolCalls ==
    tool_calls(a_messages) <= a_max_iterations

\* a text: a sequence of string fragments
IsText(x) == x \in Seq(STRING)

\* C4: whatever the query, the hint and the failure, invoke and ainvoke return a
\* result with a textual output and an intermediate_steps sequence, astream ends by
\* yielding an event carrying the failure text, and no exception leaves the method.
C4_AgentAlwaysAnswers ==
    a_pc = "done" =>
        /\ ~a_raised
        /\ a_variant \in {"invoke", "ainvoke"} =>
              /\ a_result # None
              /\ DOMAIN a_result = {"output", "intermediate_steps"}
              /\ IsText(a_result.output)
              /\ DOMAIN a_result.intermediate_steps = 1..Len(a_result.intermediate_steps)
        /\ (a_variant = "astream" /\ a_error # "") =>
              /\ a_events # << >>
              /\ a_events[Len(a_events)] = [output |-> error_output(a_error)]

\* C4 witness: the Generator failed after a tool call had been observed, and the
\* blocking variant has returned.
C4_Witness ==
    /\ a_pc = "done"
    /\ a_variant = "invoke"
    /\ a_error = "GeneratorError"
    /\ tool_calls(a_messages) >= 1
    /\ a_hint # None

\* C5: once the Generator has asked for more tool calls than the ceiling allows, the
\* run has ended, and what invoke and ainvoke return is no error report and carries
\* the transcript accumulated so far.
C5_CeilingExceededEndsWithBestText ==
    tool_requests(a_messages) > a_max_iterations =>
        /\ a_pc \in {"returned", "done"}
        /\ (a_pc = "done" /\ a_variant \in {"invoke", "ainvoke"}) =>
              /\ a_result.output # error_output(a_error)
              /\ a_result.intermediate_steps = SubSeq(a_messages, 1, Len(a_messages) - 1)

-----------------------------------------------------------------------------
(* Claims about detect_schedule_conflicts *)

\* two entries in the same slot
SameSlot(e1, e2) == e1.day = e2.day /\ e1.time = e2.time

\* the pairs i < j of entries in the same slot
SlotPairs(schedule) ==
    {pr \in (1..Len(schedule)) \X (1..Len(schedule)) :
        pr[1] < pr[2] /\ SameSlot(schedule[pr[1]], schedule[pr[2]])}

\* "<day> <time>: Teaching both <label of earlier line> and <label of later line>"
PairDescription(schedule, pr) ==
    schedule[pr[1]].day \o <<" ">> \o schedule[pr[1]].time
        \o <<":"," ","T","e","a","c","h","i","n","g"," ","b","o","t","h"," ">> \o schedule[pr[1]].class
        \o <<" ","a","n","d"," ">> \o schedule[pr[2]].class

\* the distinct descriptions of the pairs in the same slot
PairDescriptions(schedule) ==
    {PairDescription(schedule, pr) : pr \in SlotPairs(schedule)}

\* pair a comes before pair b in line order
PairBefore(a, b) == a[1] < b[1] \/ (a[1] = b[1] /\ a[2] < b[2])

\* the first pair, in line order, with the description
FirstPair(schedule, desc) ==
    CHOOSE a \in SlotPairs(schedule) :
        /\ PairDescription(schedule, a) = desc
        /\ \A b \in SlotPairs(schedule) :
              PairDescription(schedule, b) = desc => (a = b \/ PairBefore(a, b))

\* the report for a teacher that lists the descriptions, numbered from 1
IsReportOf(text, teacher_name, listed) ==
    /\ Len(split(text, "\n")) = Len(listed) + 1
    /\ split(text, "\n")[1] =
          <<"F","o","u","n","d"," ">> \o str_int(Len(listed)) \o <<" ","s","c","h","e","d","u","l","i","n","g"," ","c","o","n","f","l","i","c","t","(",
              "s",")"," ","f","o","r"," ">>
              \o teacher_name \o <<":">>
    /\ \A k \in 1..Len(listed) :
          split(text, "\n")[k + 1] = str_int(k) \o <<"."," ">> \o listed[k]

\* C6: the report's count is the number of distinct descriptions over the pairs
\* i < j of the teacher's entries with equal (day, time); each description is listed
\* once, in order of first occurrence, numbered from 1.
C6_ReportCountsDistinctDescriptions ==
    (d_pc = "done" /\ SlotPairs(d_schedule) # {}) =>
        /\ Len(d_conflicts) = Cardinality(PairDescriptions(d_schedule))
        /\ Range(d_conflicts) = PairDescriptions(d_schedule)
        /\ \A k, l \in 1..Len(d_conflicts) :
              k < l => PairBefore(FirstPair(d_schedule, d_conflicts[k]),
                                  FirstPair(d_schedule, d_conflicts[l]))
        /\ IsReportOf(d_result.v, d_teacher.v, d_conflicts)

\* C6 witness: three entries in one slot, two of them with the same label: three
\* pairs, two distinct descriptions.
C6_Witness ==
    /\ d_pc = "done"
    /\ Len(d_schedule) = 3
    /\ Cardinality(SlotPairs(d_schedule)) = 3
    /\ Len(d_conflicts) = 2
    /\ d_schedule[2].class # d_schedule[1].class
    /\ d_schedule[2].class = d_schedule[3].class

\* a line of the context mentions the teacher, letter case ignored, and holds a
\* time window
HasEntryLine(teacher_name, context) ==
    \E line \in Range(split(context, "\n")) :
        contains(lower(line), lower(teacher_name)) /\ time_match(line) # 0

\* how many of the three outcomes a result text is
OutcomeCount(text) ==
    Cardinality({k \in 1..3 :
        \/ k = 1 /\ startswith(text, <<"N","o"," ","s","c","h","e","d","u","l","e"," ","i","n","f","o","r","m","a","t","i",
              "o","n"," ","f","o","u","n","d"," ","f","o","r"," ">>)
        \/ k = 2 /\ startswith(text, <<"N","o"," ","s","c","h","e","d","u","l","i","n","g"," ","c","o","n","f","l","i","c",
              "t","s"," ","f","o","u","n","d"," ","f","o","r"," ">>)
        \/ k = 3 /\ startswith(text, <<"F","o","u","n","d"," ">>)})

\* C7: 'No schedule information found' is returned exactly when no line both
\* mentions the teacher and holds a time window; 'No scheduling conflicts found'
\* exactly when there is an entry and no two entries share (day, time); these two
\* outcomes and the conflict report are mutually distinct.
C7_NoScheduleAndNoConflictOutcomes ==
    (d_pc = "done" /\ d_teacher.t = "str" /\ d_context.t = "str") =>
        /\ d_result.v = <<"N","o"," ","s","c","h","e","d","u","l","e"," ","i","n","f","o","r","m","a","t","i",
              "o","n"," ","f","o","u","n","d"," ","f","o","r"," ">> \o d_teacher.v
              <=> ~HasEntryLine(d_teacher.v, d_context.v)
        /\ d_result.v = <<"N","o"," ","s","c","h","e","d","u","l","i","n","g"," ","c","o","n","f","l","i","c",
              "t","s"," ","f","o","u","n","d"," ","f","o","r"," ">> \o d_teacher.v
              <=> (Len(d_schedule) >= 1 /\ SlotPairs(d_schedule) = {})
        /\ startswith(d_result.v, <<"F","o","u","n","d"," ">>) <=> SlotPairs(d_schedule) # {}
        /\ OutcomeCount(d_result.v) = 1

\* C7 witness: the context holds time windows, none on a line that mentions the
\* teacher, and the result is the no-schedule outcome.
C7_Witness ==
    /\ d_pc = "done"
    /\ d_teacher = PyStr(<<"b","o","b">>)
    /\ d_context.t = "str"
    /\ \E line \in Range(split(d_context.v, "\n")) : time_match(line) # 0
    /\ d_result = PyStr(<<"N","o"," ","s","c","h","e","d","u","l","e"," ","i","n","f","o","r","m","a","t","i",
              "o","n"," ","f","o","u","n","d"," ","f","o","r"," ","b","o","b">>)

\* C8: every conflict reported pairs two entries in the same slot whose class
\* labels differ.
C8_ReportedPairsDifferInClass ==
    d_pc = "done" =>
        \A k \in 1..Len(d_conflicts) :
            \E pr \in SlotPairs(d_schedule) :
                /\ PairDescription(d_schedule, pr) = d_conflicts[k]
                /\ d_schedule[pr[1]].class # d_schedule[pr[2]].class

\* C9: for every teacher_name and context the detector returns a text and raises
\* nothing; an internal error comes back as the text 'Error analyzing schedule: ...'.
C9_DetectorNeverRaises ==
    d_pc = "done" =>
        /\ ~d_raised
        /\ d_result.t = "str"
        /\ (d_teacher.t # "str" \/ d_context.t # "str")
              => startswith(d_result.v, <<"E","r","r","o","r"," ","a","n","a","l","y","z","i","n","g"," ","s","c","h","e","d",
              "u","l","e",":"," ">>)

\* C9 witness: the context is no str, so context.split raised inside the try block.
C9_Witness ==
    /\ d_pc = "done"
    /\ d_context = None
    /\ d_teacher.t = "str"
    /\ d_result = PyStr(<<"E","r","r","o","r"," ","a","n","a","l","y","z","i","n","g"," ","s","c","h","e","d",
              "u","l","e",":"," ","'","N","o","n","e","T","y","p","e","'"," ","o","b","j","e","c",
              "t"," ","h","a","s"," ","n","o"," ","a","t","t","r","i","b","u","t","e"," ","'","s",
              "p","l","i","t","'">>)

-----------------------------------------------------------------------------
(* Claims about calculator *)

\* digits, + - * / ( ) . , and whitespace
ClaimedAllowed(c) ==
    c \in {"0","1","2","3","4","5","6","7","8","9"}
        \cup {"+", "-", "*", "/", "(", ")", ".", ","} \cup {" ", "\t", "\n", "\r"}

\* C10: an expression with a character outside digits, + - * / ( ) . , and
\* whitespace gets the 'Error: ...' rejection text, and eval is not reached.
C10_DisallowedCharacterNeverEvaluated ==
    (/\ c_pc = "done"
     /\ c_expression.t = "str"
     /\ \E i \in DOMAIN c_expression.v : ~ClaimedAllowed(c_expression.v[i])) =>
        /\ ~c_raised
        /\ ~c_evaluated
        /\ startswith(c_result.v, <<"E","r","r","o","r",":"," ","I","n","v","a","l","i","d"," ","c","h","a","r","a","c",
              "t","e","r","s"," ","i","n"," ","e","x","p","r","e","s","s","i","o","n",".">>)

\* C10 witness: '1; import os' has been rejected with nothing evaluated.
C10_Witness ==
    /\ c_pc = "done"
    /\ c_expression = PyStr(<<"1",";"," ","i","m","p","o","r","t"," ","o","s">>)
    /\ ~c_evaluated
    /\ startswith(c_result.v, <<"E","r","r","o","r",":"," ">>)

\* the expression, stripped, passes the allow-list and evaluating it raises
Unevaluable(expression) ==
    /\ all_allowed(strip(expression))
    /\ eval(strip(expression)).t = "raised"

\* C11: calculator returns a text and raises nothing; an expression whose
\* evaluation divides by zero returns an error text that mentions division by
\* zero, and an expression of allowed characters that is malformed or cannot be
\* evaluated (the empty one included) returns an 'Error: ...' text.
C11_CalculatorNeverRaises ==
    c_pc = "done" =>
        /\ ~c_raised
        /\ c_result.t = "str"
        /\ (c_expression.t = "str" /\ Unevaluable(c_expression.v)) =>
              startswith(c_result.v, <<"E","r","r","o","r",":"," ">>)
        /\ (c_expression.t = "str" /\ Unevaluable(c_expression.v)
              /\ eval(strip(c_expression.v)).kind = "ZeroDivisionError") =>
              contains(lower(c_result.v), <<"d","i","v","i","s","i","o","n"," ","b","y"," ","z","e","r","o">>)

\* C11 witness: (2+7)/0 has been evaluated and answered with the division-by-zero
\* text.
C11_Witness ==
    /\ c_pc = "done"
    /\ c_expression = PyStr(<<"(","2","+","7",")","/","0">>)
    /\ c_evaluated
    /\ c_result = PyStr(<<"E","r","r","o","r",":"," ","D","i","v","i","s","i","o","n"," ","b","y"," ","z","e",
              "r","o">>)

\* characters of the rendering of one int or float
NumericChars == Digits \cup {"-", ".", "e", "+"}

\* the text renders a single number
IsNumericText(text) ==
    /\ \E i \in 1..Len(text) : text[i] \in Digits
    /\ \A i \in 1..Len(text) : text[i] \in NumericChars

\* C12: an output of calculator that is not an 'Error: ...' text is the
\* rendering of a single numeric value, the value of the expression; no accepted
\* expression, one using ',' or '( )' included, gives a non-numeric rendering.
C12_NonErrorOutputIsNumeric ==
    (c_pc = "done" /\ c_expression.t = "str" /\ ~c_raised
        /\ ~startswith(c_result.v, <<"E","r","r","o","r",":"," ">>)) =>
            /\ IsNumericText(c_result.v)
            /\ IsNumber(eval(strip(c_expression.v)))
            /\ c_result.v = repr_value(eval(strip(c_expression.v)))

RECURSIVE RankedPassages(_)
\* the passages of a ranking in order, each under its '[From <source>]' line
RankedPassages(docs) ==
    IF Len(docs) = 0 THEN << >>
    ELSE <<"[","F","r","o","m"," ">> \o (IF Head(docs).source = None THEN <<"u","n","k","n","o","w","n">> ELSE Head(docs).source.v)
           \o <<"]","\n">> \o Head(docs).page_content
           \o (IF Len(docs) = 1 THEN << >> ELSE <<"\n","\n">> \o RankedPassages(Tail(docs)))

\* C14: the output of the document search is determined by what the Retriever
\* returns for the query: 'No relevant information found' for an empty result,
\* the passages in ranked order, each prefixed with '[From <source>]', for
\* n >= 1 documents, and an error text only when the Retriever itself fails.
C14_SearchOutputFollowsRetriever ==
    s_pc = "done" =>
        /\ ~s_raised
        /\ (s_store.kind = "docs" /\ Len(s_store.docs) = 0) =>
              startswith(s_result.v, <<"N","o"," ","r","e","l","e","v","a","n","t"," ","i","n","f","o","r","m","a","t","i",
              "o","n"," ","f","o","u","n","d">>)
        /\ (s_store.kind = "docs" /\ Len(s_store.docs) >= 1) =>
              s_result.v = RankedPassages(s_store.docs)
        /\ startswith(s_result.v, <<"E","r","r","o","r">>) => s_store.kind \in {"raise", "unloaded"}

\* the invocation returned the confirmation that names the artifact
ExportSucceededFor(inv) ==
    inv.result.t = "str" /\ startswith(inv.result.v, <<"C","S","V"," ","e","x","p","o","r","t","e","d"," ","s","u","c","c","e","s","s","f",
              "u","l","l","y"," ","t","o",":"," ">>)

\* C13: every tool returns a text for every input and raises nothing, and every
\* failure outcome is a text that begins with 'Error: '; stated for the CSV
\* exporter, whose outcome is a failure when it is not the confirmation.
C13_FailuresBeginWithErrorPrefix ==
    \A p \in ExportProcs :
        x_proc[p].pc = "done" =>
            /\ ~x_proc[p].raised
            /\ x_proc[p].result.t = "str"
            /\ ~ExportSucceededFor(x_proc[p]) => startswith(x_proc[p].result.v, <<"E","r","r","o","r",":"," ">>)

\* the data is a text all of whose lines are blank
NoNonBlankLine(data) ==
    data.t = "str" /\ \A i \in 1..Len(data.v) : data.v[i] \in {" ", "\t", "\r", "\n"}

ClaimedNoData == PyStr(<<"E","r","r","o","r",":"," ","N","o"," ","d","a","t","a"," ","t","o"," ",
                        "e","x","p","o","r","t">>)

ClaimedNameChars ==
    {"a","b","c","d","e","f","g","h","i","j","k","l","m","n","o","p","q","r","s","t","u","v","w",
     "x","y","z","A","B","C","D","E","F","G","H","I","J","K","L","M","N","O","P","Q","R","S","T",
     "U","V","W","X","Y","Z","0","1","2","3","4","5","6","7","8","9","_","-"}

\* the supplied name with every other character replaced by '_', then '.csv'
ClaimedArtifactName(filename) ==
    [i \in 1..Len(filename) |->
        IF filename[i] \in ClaimedNameChars THEN filename[i] ELSE "_"] \o <<".", "c", "s", "v">>

\* the path is one name directly inside data/exports
InsideExportDir(filepath, name) ==
    /\ ~filepath.absolute
    /\ filepath.parts = <<<<"d","a","t","a">>, <<"e","x","p","o","r","t","s">>, name>>
    /\ \A i \in 1..Len(name) : name[i] # "/"
    /\ name \notin {<<".">>, <<".", ".">>}

\* C16: for every supplied name, the file export_to_csv opens lies directly in
\* the export directory and is named by the supplied name with every character
\* outside [A-Za-z0-9_-] replaced by '_' and '.csv' appended; only such files
\* are ever created or changed.
C16_ArtifactInsideExportDir ==
    /\ \A p \in ExportProcs :
          x_proc[p].filepath # None =>
              InsideExportDir(x_proc[p].filepath, ClaimedArtifactName(x_proc[p].filename))
    /\ \A path \in DOMAIN x_files :
          x_files[path] # None =>
              \E f \in ExportFilenames \cup ConcurrentFilenames :
                  InsideExportDir(path, ClaimedArtifactName(f))

\* C16 witness: the name ../x was exported and the file data/exports/___x.csv
\* holds the data.
C16_Witness ==
    /\ x_proc[1].pc = "done"
    /\ x_proc[1].filename = <<".", ".", "/", "x">>
    /\ ExportSucceededFor(x_proc[1])
    /\ x_files[[absolute |-> FALSE,
                parts |-> <<<<"d","a","t","a">>, <<"e","x","p","o","r","t","s">>,
                            <<"_","_","_","x",".","c","s","v">>>>]] = x_proc[1].data

\* the text has a character that is not white space
NonBlank(text) == \E i \in 1..Len(text) : text[i] \notin {" ", "\t", "\r", "\n"}

RECURSIVE NonBlankLines(_)
\* the non-blank ones of a list of lines, trimmed
NonBlankLines(parts) ==
    IF Len(parts) = 0 THEN << >>
    ELSE (IF NonBlank(Head(parts)) THEN <<strip(Head(parts))>> ELSE << >>)
             \o NonBlankLines(Tail(parts))

\* the two columns the claim gives a line
ClaimedColumns(line) ==
    IF \E i \in 1..Len(line) : line[i] = ":"
    THEN <<strip(split_once(line, ":")[1]), strip(split_once(line, ":")[2])>>
    ELSE IF \E i \in 1..Len(line) : line[i] = "-"
    THEN <<strip(split_once(line, "-")[1]), strip(split_once(line, "-")[2])>>
    ELSE <<line, << >>>>

RECURSIVE ClaimedRows(_)
\* one CSV row per line
ClaimedRows(lines) ==
    IF Len(lines) = 0 THEN << >>
    ELSE writerow(ClaimedColumns(Head(lines))[1], ClaimedColumns(Head(lines))[2])
            \o ClaimedRows(Tail(lines))

\* what the claim has export_to_csv write for the data
ClaimedOutput(data) ==
    IF \E i \in 1..Len(NonBlankLines(split(data, "\n"))[1]) :
            NonBlankLines(split(data, "\n"))[1][i] = ","
    THEN data
    ELSE <<"I","t","e","m",",","V","a","l","u","e","\r","\n">>
            \o ClaimedRows(NonBlankLines(split(data, "\n")))

\* C17: an invocation whose data has a non-blank line writes the data verbatim
\* if and only if the first non-blank line contains a comma; otherwise it writes
\* the 'Item,Value' header and one two-column row per non-blank line, split at
\* the first ':' if there is one, else at the first '-', else (line, empty),
\* both parts trimmed.  With no other invocation on the file, the file holds
\* exactly that.
C17_VerbatimOrItemValueTable ==
    \A p \in ExportProcs :
        (x_proc[p].pc = "done" /\ ExportSucceededFor(x_proc[p])) =>
            /\ x_proc[p].buffer = ClaimedOutput(x_proc[p].data.v)
            /\ (x_proc[p].buffer = x_proc[p].data.v) <=> x_proc[p].verbatim
            /\ (\A q \in ExportProcs \ {p} : x_proc[q].pc = "start") =>
                  x_files[x_proc[p].filepath] = PyStr(ClaimedOutput(x_proc[p].data.v))

\* C17 witness: 'a-b: c' was exported alone and the file holds the header and
\* the row a-b,c.
C17_Witness ==
    /\ x_proc[1].pc = "done"
    /\ x_proc[1].data = PyStr(<<"a","-","b",":"," ","c">>)
    /\ x_proc[2].pc = "start"
    /\ x_files[x_proc[1].filepath] =
          PyStr(<<"I","t","e","m",",","V","a","l","u","e","\r","\n","a","-","b",",","c","\r","\n">>)

\* the complete outputs of the invocations that target the path
CompleteOutputs(path) ==
    {PyStr(ClaimedOutput(x_proc[p].data.v)) :
        p \in {q \in ExportProcs : /\ x_proc[q].data.t = "str"
                                   /\ NonBlank(x_proc[q].data.v)
                                   /\ filepath_of(x_proc[q].filename) = path}}

\* C18: the export is atomic with respect to its artifact: at every point of
\* every interleaving of invocations on one artifact name, cancelled ones
\* included, the file holds what it held before or the complete output of
\* exactly one invocation, never a half-written or mixed file.
C18_ExportIsAtomic ==
    \A path \in DOMAIN x_files :
        x_files[path] \in {None, OldContent, DirEntry} \cup CompleteOutputs(path)

\* the Type field of a reply whose first line is the Type line, None when the
\* reply has no Type line
ReplyTypeField(text) ==
    IF startswith(text, <<"T","y","p","e",":">>)
    THEN PyStr(SubSeq(text, 6, IF find_char(text, "\n") = 0 THEN Len(text)
                               ELSE find_char(text, "\n") - 1))
    ELSE None

\* s has one of the keywords
HasKeyword(s, keywords) == \E kw \in keywords : contains(s, kw)

\* the query type the claim gives a Type field
ClaimedQueryType(field) ==
    IF field = None THEN "simple"
    ELSE IF HasKeyword(lower(field.v), {<<"c","r","o","s","s">>, <<"m","u","l","t","i">>}) THEN "cross_document"
    ELSE IF HasKeyword(lower(field.v), {<<"a","g","g","r","e","g","a","t","i","o","n">>, <<"c","o","u","n","t">>}) THEN "aggregation"
    ELSE IF HasKeyword(lower(field.v), {<<"c","o","m","p","l","e","x">>}) THEN "complex"
    ELSE "simple"

\* C19: the query type of the decision is CrossDocument if the lowercased Type
\* field contains 'cross' or 'multi'; otherwise Aggregation if it contains
\* 'aggregation' or 'count'; otherwise Complex if it contains 'complex';
\* otherwise, a missing or empty Type included, Simple.
C19_TypeKeywordsInOrder ==
    r_pc = "done" =>
        /\ ~r_raised
        /\ r_route.query_type = ClaimedQueryType(ReplyTypeField(r_gen.text))

\* C19 witness: the reply 'Type: complex cross' was mapped to CrossDocument.
C19_Witness ==
    /\ r_pc = "done"
    /\ r_gen.kind = "reply"
    /\ r_gen.text = <<"T","y","p","e",":"," ","c","o","m","p","l","e","x"," ","c","r","o","s","s","\n",
              "R","e","a","s","o","n","i","n","g",":"," ","r">>
    /\ r_route.query_type = "cross_document"

\* the reply ends in a Filter line with one of the fields
HasFilterField(text, fields) ==
    \E prefix \in FilterReplyPrefixes, f \in fields :
        text = prefix \o <<"\n","F","i","l","t","e","r",":"," ">> \o f

\* C20: the decision carries a metadata filter only if the Filter field of the
\* reply is a well-formed JSON object or a single 'key: value' pair; a missing,
\* empty or 'none' field, malformed JSON and free text give no filter.
C20_FilterOnlyFromObjectOrPair ==
    (r_pc = "done" /\ ~r_raised /\ r_route.metadata_filter # None) =>
        HasFilterField(r_gen.text, JsonObjectFilters \cup KeyValueFilters)

\* the reply has the Reasoning line 'Reasoning: r'
HasReasoningLine(text) == contains(text, <<"\n","R","e","a","s","o","n","i","n","g",":"," ","r">>)

\* C21: a Filter field that cannot become a string-to-string mapping fails
\* silently: the decision has no filter and keeps the query type mapped from the
\* Type line and the reasoning of the Reasoning line of the same reply; whatever
\* the Filter field holds, the query type is the one of the Type line.
C21_BadFilterFailsSilently ==
    r_pc = "done" =>
        /\ ~r_raised
        /\ r_route.query_type = ClaimedQueryType(ReplyTypeField(r_gen.text))
        /\ HasFilterField(r_gen.text, JsonListFilters) =>
              /\ r_route.metadata_filter = None
              /\ HasReasoningLine(r_gen.text) => r_route.reasoning = <<"r">>

-----------------------------------------------------------------------------
(* Claims about the order of tool calls *)

\* the ids of the observations yielded so far
yielded_ids(events) ==
    UNION {observed_ids(events[i].messages) : i \in 1..Len(events)}

(***************************************************************************)
(* C22: within one run of the reasoning loop (invoke, ainvoke or astream)  *)
(* tool invocations are strictly sequential: no two tool calls of the run  *)
(* are in progress at the same time, and a tool call starts only after     *)
(* the observation of every earlier tool call of the run is in the         *)
(* messages and, in a streamed run, has been yielded.                      *)
(***************************************************************************)
C22_ToolCallsSequential ==
    /\ Cardinality(t_running) <= 1
    /\ \A id \in t_started : \A earlier \in 1..(id - 1) :
          /\ earlier \in observed_ids(t_messages)
          /\ t_variant = "astream" => earlier \in yielded_ids(t_events)

-----------------------------------------------------------------------------
(* Claims about tool names that are not registered *)

\* the requests of the messages for a tool that is not registered
UnknownRequests(messages) ==
    {i \in 1..Len(messages) : messages[i].role = "ai" /\ messages[i].tool # ""
                                 /\ messages[i].tool \notin ToolNames}

\* an observation reporting that the named tool does not exist
IsUnknownToolError(message, name) ==
    /\ message.role = "tool"
    /\ message.tool = name
    /\ Len(message.content) > 0
    /\ message.content[1] = "Error: "

-----------------------------------------------------------------------------
(* Claims about the keyword heuristic *)

\* the category the cue sets give a lowercased query, the earliest-checked first
ClaimedHeuristicType(q) ==
    IF any_keyword(q, AggregationKeywords) THEN "aggregation"
    ELSE IF any_keyword(q, CrossDocumentKeywords) THEN "cross_document"
    ELSE IF any_keyword(q, ComplexKeywords) THEN "complex"
    ELSE "simple"

\* the reply's Filter is a JSON array of objects: building the decision raises and
\* the heuristic answers
HeuristicAnswered ==
    /\ r_pc = "done"
    /\ r_gen.kind = "reply"
    /\ contains(r_gen.text, <<"F","i","l","t","e","r",":"," ","[","{">>)

\* the cue sets a lowercased query matches
CueSetsMatched(q) ==
    {ks \in {AggregationKeywords, CrossDocumentKeywords, ComplexKeywords} : any_keyword(q, ks)}

(***************************************************************************)
(* C24: the keyword heuristic returns Aggregation when the lowercased      *)
(* query contains an aggregation cue, otherwise CrossDocument when it      *)
(* contains a breadth cue, otherwise Complex when it contains a tool-use   *)
(* cue, otherwise Simple; a query matching several cue sets gets the       *)
(* earliest-checked category, and the decision carries no metadata filter. *)
(***************************************************************************)
C24_HeuristicCueOrder ==
    HeuristicAnswered =>
        /\ ~r_raised
        /\ r_route.query_type = ClaimedHeuristicType(lower(r_query))
        /\ r_route.metadata_filter = None

\* C24 witness: the heuristic answered a mixed-case query that matches the
\* aggregation cues and another cue set.
C24_Witness ==
    /\ HeuristicAnswered
    /\ Cardinality(CueSetsMatched(lower(r_query))) >= 2
    /\ r_query # lower(r_query)
    /\ r_route.query_type = "aggregation"

\* the time-range text (start and end) of an entry's line
TimeRangeText(line) ==
    SubSeq(line, space_end(line, word_end(line, time_match(line))),
           time_pattern_at(line, time_match(line)) - 1)

\* two entries whose day token and time-range text are the same strings
SameDayAndRange(e1, e2) ==
    e1.day = e2.day /\ TimeRangeText(e1.line) = TimeRangeText(e2.line)

(***************************************************************************)
(* C25: two schedule entries are paired as a conflict only when their day  *)
(* token and their time-range text (start and end) are both identical      *)
(* strings: every reported conflict is the description of a pair of        *)
(* entries with the same day and the same time-range text.                 *)
(***************************************************************************)
C25_ConflictNeedsSameDayAndRange ==
    d_pc = "done" =>
        \A k \in 1..Len(d_conflicts) :
            \E i, j \in 1..Len(d_schedule) :
                /\ i < j
                /\ PairDescription(d_schedule, <<i, j>>) = d_conflicts[k]
                /\ SameDayAndRange(d_schedule[i], d_schedule[j])

\* the lines of a context that contain the teacher name, letter case ignored
NamingLines(teacher_name, context) ==
    SelectSeq(split(context, "\n"), LAMBDA line : contains(lower(line), lower(teacher_name)))

\* the context without the lines that do not contain the teacher name
WithoutOtherLines(teacher_name, context) == join(NamingLines(teacher_name, context), <<"\n">>)

(***************************************************************************)
(* C26: only the lines of the context that contain the teacher name as a   *)
(* case-insensitive substring contribute schedule entries: the report is   *)
(* the report for the context with every other line removed.               *)
(***************************************************************************)
C26_OnlyNamingLinesContribute ==
    (d_pc = "done" /\ d_teacher.t = "str" /\ d_context.t = "str") =>
        /\ ~d_raised
        /\ d_result.v =
              detect_schedule_conflicts(
                  d_teacher, PyStr(WithoutOtherLines(d_teacher.v, d_context.v))).val
        /\ Len(d_schedule) <= Len(NamingLines(d_teacher.v, d_context.v))

\* C26 witness: the context holds a line of another teacher in the slot of two lines
\* of the teacher asked about, one of them naming the teacher in another letter
\* case, and the report lists one conflict.
C26_Witness ==
    /\ d_pc = "done"
    /\ d_context.t = "str"
    /\ d_teacher.t = "str"
    /\ Len(split(d_context.v, "\n")) = 3
    /\ Len(NamingLines(d_teacher.v, d_context.v)) = 2
    /\ Len(d_conflicts) = 1
    /\ \E line \in Range(NamingLines(d_teacher.v, d_context.v)) :
          ~contains(line, d_teacher.v)
    /\ \E line \in Range(split(d_context.v, "\n")) :
          /\ ~contains(lower(line), lower(d_teacher.v))
          /\ time_match(line) # 0

\* the label the precedence gives a line: the verbose text, else the compact token,
\* else the literal
ClaimedLabel(case) ==
    IF case.verbose # << >> THEN case.verbose
    ELSE IF case.compact # << >> THEN case.compact
    ELSE <<"U","n","k","n","o","w","n"," ","C","l","a","s","s">>

\* the case a schedule line was made of
CaseOf(line) == CHOOSE case \in LabelCases : LabelLine(case) = line

(***************************************************************************)
(* C27: the class label of a schedule entry is the matched '<Level>        *)
(* Section <Letter>' text when the line holds that form in any letter      *)
(* case, whether a compact '<O|A><digit><Letter>' token stands before or   *)
(* after it; otherwise the compact token when the line holds one;          *)
(* otherwise 'Unknown Class'.  Extraction never fails.                     *)
(***************************************************************************)
C27_ClassLabelPrecedence ==
    d_pc = "done" =>
        /\ ~d_raised
        /\ Len(d_schedule) = Len(split(d_context.v, "\n"))
              \/ d_context.v = << >>
        /\ \A k \in 1..Len(d_schedule) :
              d_schedule[k].class = ClaimedLabel(CaseOf(d_schedule[k].line))

\* C27 witness: one entry from a line with the compact token before the verbose
\* form and one from a line with the verbose form before the compact token.
C27_Witness ==
    /\ d_pc = "done"
    /\ Len(d_schedule) = 2
    /\ d_schedule[1].class = <<"O","-","L","e","v","e","l"," ","S","e","c","t","i","o","n"," ","B">>
    /\ contains(d_schedule[1].line, <<"O","1","A"," ","O","-","L","e","v","e","l">>)
    /\ d_schedule[2].class = <<"A","-","L","e","v","e","l"," ","S","e","c","t","i","o","n"," ","C">>
    /\ contains(d_schedule[2].line, <<"S","e","c","t","i","o","n"," ","C"," ","A","2","B">>)

-----------------------------------------------------------------------------
(* Claims about the chat handlers *)

\* the last handler call answered a question with the QA chain set
AnsweredWithDocuments ==
    /\ h_last # None
    /\ h_last.handler = "main"
    /\ h_qa_chain # None

(***************************************************************************)
(* C28: in the message handler, once documents are available, a question   *)
(* routed Complex is processed by the agent and a question of any other    *)
(* query type by the QA chain; no Complex question goes to the QA chain.   *)
(***************************************************************************)
C28_ComplexGoesToAgent ==
    AnsweredWithDocuments =>
        /\ h_last.query_type \in QueryType
        /\ h_last.query_type = "complex" =>
              ("agent" \in h_last.invoked /\ "qa_chain" \notin h_last.invoked)
        /\ h_last.query_type # "complex" =>
              ("qa_chain" \in h_last.invoked /\ "agent" \notin h_last.invoked)

\* the last handler call was an upload that reported success
UploadSucceeded ==
    /\ h_last # None
    /\ h_last.handler = "handle_file_upload"
    /\ h_last.said = "Successfully processed"

(***************************************************************************)
(* C29: after a successful upload the module's agent is the agent that     *)
(* upload made on the updated vector store, and the QA chain is the one    *)
(* that upload made, whatever the agent was before, unset included.        *)
(***************************************************************************)
C29_UploadSetsModuleAgent ==
    UploadSucceeded =>
        /\ h_qa_chain = Chain(h_calls, h_vector_store_manager)
        /\ h_agent = Agent(h_calls, h_vector_store_manager)

\* no vector store was persisted when the session started, and nothing has been
\* uploaded in the session
NothingPersistedNorUploaded ==
    /\ h_session # None
    /\ h_session.dir \in {"absent", "empty"}
    /\ h_session.uploads = 0

(***************************************************************************)
(* C30: when no vector store has been persisted at the start of a chat     *)
(* session, start says 'No documents loaded yet' and leaves the QA chain   *)
(* and the agent unset, and every question before the first upload gets    *)
(* the 'Please upload a document first' notice with no call of the         *)
(* router, the QA chain or the agent.                                      *)
(***************************************************************************)
C30_NoStoreMeansNotice ==
    NothingPersistedNorUploaded =>
        /\ (h_last.handler = "start" /\ ~h_last.raised) =>
              /\ h_last.said = "No documents loaded yet."
              /\ h_qa_chain = None
              /\ h_agent = None
        /\ h_last.handler = "main" =>
              /\ h_last.said = "Please upload a document first!"
              /\ h_last.invoked = {}
====
